---------------------------- MODULE Spec2Model ----------------------------
(***************************************************************************)
(* SafeAPI: content cipher, key wrapping and the document sharing protocol *)
(* (SDK ShareCore + CloudClient against the cloud functions' broker).      *)
(*                                                                         *)
(* Cryptography is modelled symbolically (ideal primitives): an AES-GCM    *)
(* ciphertext is a term that opens only under the key and nonce that made  *)
(* it, an OpenPGP message is a term that opens only under the private half *)
(* of the key pair it was encrypted to.  Everything around the primitives  *)
(* (JSON text, UTF-8, byte framing, raw key export/import) is computed.    *)
(***************************************************************************)
EXTENDS Integers, Sequences, FiniteSets, TLC

(* ------------------------------ bounds -------------------------------- *)
\* number of ShareCore operations started in one behaviour, one client
MaxOps == 2
\* number of ShareCore operations started in one behaviour, two clients
MaxConcurrentOps == 2
\* total number of failed broker requests (HTTP error or network error)
MaxFaults == 1
\* number of leading key bytes that vary in the sampled raw keys
PrefixLen == 2
\* number of encryptJsonAesGcm calls one caller makes
MaxEncrypts == 2
\* number of Keys methods called on one Keys object
MaxKeyOps == 4
\* number of DataCore methods called on one DataCore
MaxDataOps == 3
\* calls on one UX mode object and its key service
MaxEscrowOps == 3

(* ------------------------- program constants -------------------------- *)
\* generateKey({ name: 'AES-GCM', length: 256 }): 32 raw bytes
AesKeyBytes == 32
\* crypto.getRandomValues(new Uint8Array(12))
IvLen == 12
\* out[0] = 1
FormatVersion == 1

(* ------------------------------ helpers ------------------------------- *)
Range(s) == {s[i] : i \in DOMAIN s}

RECURSIVE Flatten(_)
Flatten(ss) == IF ss = <<>> THEN <<>> ELSE Head(ss) \o Flatten(Tail(ss))

Fill(len, b) == [i \in 1..len |-> b]

\* Body applied to value, with value computed once
With(value, Body(_)) == CHOOSE y \in {Body(x) : x \in {value}} : TRUE

(* ------------------------- UTF-8 (TextEncoder) ------------------------ *)
\* A string is its sequence of code points; an unpaired surrogate code unit
\* (0xD800..0xDFFF) of a JavaScript string is an element of its own, which
\* TextEncoder encodes as U+FFFD.
Utf8EncodeCp(c) ==
  IF c \in 55296..57343 THEN <<239, 191, 189>>
  ELSE IF c < 128 THEN <<c>>
  ELSE IF c < 2048 THEN <<192 + (c \div 64), 128 + (c % 64)>>
  ELSE IF c < 65536
    THEN <<224 + (c \div 4096), 128 + ((c \div 64) % 64), 128 + (c % 64)>>
  ELSE <<240 + (c \div 262144), 128 + ((c \div 4096) % 64),
         128 + ((c \div 64) % 64), 128 + (c % 64)>>

\* new TextEncoder().encode(str)
TextEncode(str) ==
  With(str, LAMBDA cps : Flatten([i \in DOMAIN cps |-> Utf8EncodeCp(cps[i])]))

(* ------------------------- UTF-8 (TextDecoder) ------------------------ *)
\* Non-fatal decoding: every maximal ill-formed subsequence becomes U+FFFD
\* (65533) and decoding resumes at the byte that broke the sequence.
RECURSIVE Utf8DecodeFrom(_, _)
Utf8DecodeFrom(bytes, i) ==
  IF i > Len(bytes) THEN <<>>
  ELSE
    LET b == bytes[i]
        need == IF b \in 194..223 THEN 1
                ELSE IF b \in 224..239 THEN 2
                ELSE IF b \in 240..244 THEN 3 ELSE 0
        lo2 == IF b = 224 THEN 160 ELSE IF b = 240 THEN 144 ELSE 128
        hi2 == IF b = 237 THEN 159 ELSE IF b = 244 THEN 143 ELSE 191
        ContOk(j) == /\ i + j <= Len(bytes)
                     /\ bytes[i + j] \in (IF j = 1 THEN lo2..hi2 ELSE 128..191)
        good == Cardinality({m \in 1..need : \A j \in 1..m : ContOk(j)})
        lead == IF need = 1 THEN b - 192 ELSE IF need = 2 THEN b - 224 ELSE b - 240
        cp == IF need = 1 THEN lead * 64 + (bytes[i + 1] - 128)
              ELSE IF need = 2
                THEN lead * 4096 + (bytes[i + 1] - 128) * 64 + (bytes[i + 2] - 128)
              ELSE lead * 262144 + (bytes[i + 1] - 128) * 4096
                   + (bytes[i + 2] - 128) * 64 + (bytes[i + 3] - 128)
    IN IF b < 128 THEN <<b>> \o Utf8DecodeFrom(bytes, i + 1)
       ELSE IF need = 0 THEN <<65533>> \o Utf8DecodeFrom(bytes, i + 1)
       ELSE IF good = need THEN <<cp>> \o Utf8DecodeFrom(bytes, i + need + 1)
       ELSE <<65533>> \o Utf8DecodeFrom(bytes, i + good + 1)

\* new TextDecoder().decode(bytes)
TextDecode(bytes) == With(bytes, LAMBDA b : Utf8DecodeFrom(b, 1))

(* ----------------------------- JS values ------------------------------ *)
\* A JavaScript value: t is its kind, n a number, s a string (code points),
\* kids the elements of an array or the [k, v] properties of an object.
JNull == [t |-> "null", n |-> 0, s |-> <<>>, kids |-> <<>>]
JUndefined == [t |-> "undefined", n |-> 0, s |-> <<>>, kids |-> <<>>]
JNaN == [t |-> "nan", n |-> 0, s |-> <<>>, kids |-> <<>>]
JBool(b) == [t |-> "bool", n |-> IF b THEN 1 ELSE 0, s |-> <<>>, kids |-> <<>>]
JNum(n) == [t |-> "num", n |-> n, s |-> <<>>, kids |-> <<>>]
JStr(s) == [t |-> "str", n |-> 0, s |-> s, kids |-> <<>>]
JArr(kids) == [t |-> "arr", n |-> 0, s |-> <<>>, kids |-> kids]
JObj(props) == [t |-> "obj", n |-> 0, s |-> <<>>, kids |-> props]
JSyntaxError == [t |-> "SyntaxError", n |-> 0, s |-> <<>>, kids |-> <<>>]

RECURSIVE Digits(_)
Digits(n) == IF n < 10 THEN <<48 + n>> ELSE Digits(n \div 10) \o <<48 + (n % 10)>>

\* the quoted form of a string: '"' and '\' are escaped, newline becomes \n
QuoteChar(c) == IF c = 34 THEN <<92, 34>>
                ELSE IF c = 92 THEN <<92, 92>>
                ELSE IF c = 10 THEN <<92, 110>> ELSE <<c>>
Quote(s) == <<34>> \o Flatten([i \in DOMAIN s |-> QuoteChar(s[i])]) \o <<34>>

RECURSIVE JoinComma(_)
JoinComma(parts) ==
  IF parts = <<>> THEN <<>>
  ELSE IF Len(parts) = 1 THEN parts[1]
  ELSE parts[1] \o <<44>> \o JoinComma(Tail(parts))

\* JSON.stringify(value): NaN and, inside arrays, undefined become null;
\* object properties whose value is undefined are left out.
RECURSIVE JsonStringify(_)
JsonStringify(v) ==
  CASE v.t = "null" -> <<110, 117, 108, 108>>
    [] v.t = "nan" -> <<110, 117, 108, 108>>
    [] v.t = "undefined" -> <<110, 117, 108, 108>>
    [] v.t = "bool" -> IF v.n = 1 THEN <<116, 114, 117, 101>>
                       ELSE <<102, 97, 108, 115, 101>>
    [] v.t = "num" -> IF v.n < 0 THEN <<45>> \o Digits(-v.n) ELSE Digits(v.n)
    [] v.t = "str" -> Quote(v.s)
    [] v.t = "arr" ->
         <<91>> \o JoinComma([i \in DOMAIN v.kids |-> JsonStringify(v.kids[i])])
                \o <<93>>
    [] v.t = "obj" ->
         LET kept == SelectSeq(v.kids, LAMBDA p : p.v.t # "undefined")
         IN <<123>> \o JoinComma([i \in DOMAIN kept |->
                         Quote(kept[i].k) \o <<58>> \o JsonStringify(kept[i].v)])
                    \o <<125>>

\* JSON.stringify(value, null, 2): members on lines of their own, indented
\* by two spaces per level, ': ' after a name
Indent(level) == [i \in 1..(2 * level) |-> 32]
RECURSIVE JoinLines(_, _)
JoinLines(parts, level) ==
  IF parts = <<>> THEN <<>>
  ELSE IF Len(parts) = 1 THEN Indent(level) \o parts[1]
  ELSE Indent(level) \o parts[1] \o <<44, 10>> \o JoinLines(Tail(parts), level)
RECURSIVE JsonStringifyIndent(_, _)
JsonStringifyIndent(v, level) ==
  CASE v.t = "arr" /\ v.kids # <<>> ->
         <<91, 10>>
           \o JoinLines([i \in DOMAIN v.kids |-> JsonStringifyIndent(v.kids[i], level + 1)],
                        level + 1)
           \o <<10>> \o Indent(level) \o <<93>>
    [] v.t = "obj" ->
         LET kept == SelectSeq(v.kids, LAMBDA p : p.v.t # "undefined")
         IN IF kept = <<>> THEN <<123, 125>>
            ELSE <<123, 10>>
                   \o JoinLines([i \in DOMAIN kept |->
                         Quote(kept[i].k) \o <<58, 32>>
                           \o JsonStringifyIndent(kept[i].v, level + 1)], level + 1)
                   \o <<10>> \o Indent(level) \o <<125>>
    [] OTHER -> JsonStringify(v)

\* sample payloads
StrHi == <<104, 105>>
StrMsg == <<109, 115, 103>>
\* a string with a quote, a backslash, a comma and non-ASCII code points
StrOdd == <<34, 92, 44, 233, 8364, 128512>>
JsonLeaves == {JNull, JBool(TRUE), JBool(FALSE), JNum(0), JNum(42), JNum(-7),
               JStr(<<>>), JStr(StrHi), JStr(StrOdd)}
\* the JSON values of the model: what JSON.parse can return here
JsonValues ==
  JsonLeaves
  \cup {JArr(<<>>), JObj(<<>>)}
  \cup {JArr(<<a>>) : a \in JsonLeaves}
  \cup {JArr(<<JStr(StrHi), a>>) : a \in JsonLeaves}
  \cup {JObj(<<[k |-> StrMsg, v |-> a]>>) : a \in JsonLeaves}
  \cup {JObj(<<[k |-> StrMsg, v |-> JStr(StrHi)], [k |-> StrHi, v |-> JArr(<<a>>)]>>) :
          a \in JsonLeaves}
\* values a caller can pass that are not JSON values
NonJsonValues == {JNaN, JArr(<<JUndefined>>), JObj(<<[k |-> StrMsg, v |-> JUndefined]>>),
                  JObj(<<[k |-> StrMsg, v |-> JNaN]>>)}

\* JSON.parse: a recursive-descent parser over the code points of the text.
\* Every parse step returns [ok, v, i]: the value read and the position
\* after it.  Numbers are integers (the model has no fractions).
JsonFail == [ok |-> FALSE, v |-> JSyntaxError, i |-> 0]
IsWs(c) == c \in {32, 9, 10, 13}
IsDigit(c) == c \in 48..57

RECURSIVE SkipWs(_, _)
SkipWs(t, i) == IF i <= Len(t) /\ IsWs(t[i]) THEN SkipWs(t, i + 1) ELSE i

Matches(t, i, word) ==
  /\ i + Len(word) - 1 <= Len(t)
  /\ SubSeq(t, i, i + Len(word) - 1) = word

\* the characters of a string literal from position i (after the opening
\* quote) to the closing quote
RECURSIVE ParseString(_, _, _)
ParseString(t, i0, acc) ==
 With(i0, LAMBDA i :
  IF i > Len(t) THEN JsonFail
  ELSE IF t[i] = 34 THEN [ok |-> TRUE, v |-> JStr(acc), i |-> i + 1]
  ELSE IF t[i] < 32 THEN JsonFail
  ELSE IF t[i] = 92 THEN
    IF i + 1 > Len(t) THEN JsonFail
    ELSE LET e == t[i + 1]
             c == CASE e = 34 -> 34 [] e = 92 -> 92 [] e = 47 -> 47
                    [] e = 110 -> 10 [] e = 116 -> 9 [] e = 114 -> 13
                    [] e = 98 -> 8 [] e = 102 -> 12 [] OTHER -> -1
         IN IF c < 0 THEN JsonFail ELSE ParseString(t, i + 2, Append(acc, c))
  ELSE ParseString(t, i + 1, Append(acc, t[i])))

RECURSIVE ParseDigits(_, _, _)
ParseDigits(t, i, acc) ==
  IF i <= Len(t) /\ IsDigit(t[i]) THEN ParseDigits(t, i + 1, acc * 10 + (t[i] - 48))
  ELSE [ok |-> TRUE, v |-> JNum(acc), i |-> i]

ParseNumber(t, i) ==
  LET neg == t[i] = 45
      at == IF neg THEN i + 1 ELSE i
  IN IF at > Len(t) \/ ~IsDigit(t[at]) THEN JsonFail
     ELSE IF t[at] = 48 /\ at + 1 <= Len(t) /\ IsDigit(t[at + 1]) THEN JsonFail
     ELSE LET d == ParseDigits(t, at, 0)
          IN IF neg THEN [d EXCEPT !.v = JNum(0 - d.v.n)] ELSE d

RECURSIVE ParseValue(_, _)
RECURSIVE ParseElems(_, _, _)
RECURSIVE ParseMembers(_, _, _)

\* the elements of an array after '[' or after a comma
ParseElems(t, i, acc) ==
  With(ParseValue(t, i), LAMBDA e :
    With(IF e.ok THEN SkipWs(t, e.i) ELSE 0, LAMBDA k :
      IF ~e.ok \/ k > Len(t) THEN JsonFail
      ELSE IF t[k] = 44 THEN ParseElems(t, k + 1, Append(acc, e.v))
      ELSE IF t[k] = 93 THEN [ok |-> TRUE, v |-> JArr(Append(acc, e.v)), i |-> k + 1]
      ELSE JsonFail))

\* the members of an object after '{' or after a comma; a repeated name
\* keeps its first place and the last value
ParseMembers(t, i, acc) ==
  With(SkipWs(t, i), LAMBDA k0 :
    IF k0 > Len(t) \/ t[k0] # 34 THEN JsonFail
    ELSE
      With(ParseString(t, k0 + 1, <<>>), LAMBDA name :
        With(IF name.ok THEN SkipWs(t, name.i) ELSE 0, LAMBDA k1 :
          IF ~name.ok \/ k1 > Len(t) \/ t[k1] # 58 THEN JsonFail
          ELSE
            With(ParseValue(t, k1 + 1), LAMBDA e :
              With(IF e.ok THEN SkipWs(t, e.i) ELSE 0, LAMBDA k2 :
                With(IF \E j \in DOMAIN acc : acc[j].k = name.v.s
                     THEN [j \in DOMAIN acc |->
                             IF acc[j].k = name.v.s THEN [k |-> name.v.s, v |-> e.v]
                             ELSE acc[j]]
                     ELSE Append(acc, [k |-> name.v.s, v |-> e.v]), LAMBDA more :
                  IF ~e.ok \/ k2 > Len(t) THEN JsonFail
                  ELSE IF t[k2] = 44 THEN ParseMembers(t, k2 + 1, more)
                  ELSE IF t[k2] = 125 THEN [ok |-> TRUE, v |-> JObj(more), i |-> k2 + 1]
                  ELSE JsonFail))))))

ParseValue(t, i0) ==
  With(SkipWs(t, i0), LAMBDA i :
     IF i > Len(t) THEN JsonFail
     ELSE CASE t[i] = 110 ->
                 IF Matches(t, i, <<110, 117, 108, 108>>)
                 THEN [ok |-> TRUE, v |-> JNull, i |-> i + 4] ELSE JsonFail
            [] t[i] = 116 ->
                 IF Matches(t, i, <<116, 114, 117, 101>>)
                 THEN [ok |-> TRUE, v |-> JBool(TRUE), i |-> i + 4] ELSE JsonFail
            [] t[i] = 102 ->
                 IF Matches(t, i, <<102, 97, 108, 115, 101>>)
                 THEN [ok |-> TRUE, v |-> JBool(FALSE), i |-> i + 5] ELSE JsonFail
            [] t[i] = 34 -> ParseString(t, i + 1, <<>>)
            [] t[i] = 45 \/ IsDigit(t[i]) -> ParseNumber(t, i)
            [] t[i] = 91 ->
                 LET k == SkipWs(t, i + 1)
                 IN IF k <= Len(t) /\ t[k] = 93
                    THEN [ok |-> TRUE, v |-> JArr(<<>>), i |-> k + 1]
                    ELSE ParseElems(t, i + 1, <<>>)
            [] t[i] = 123 ->
                 LET k == SkipWs(t, i + 1)
                 IN IF k <= Len(t) /\ t[k] = 125
                    THEN [ok |-> TRUE, v |-> JObj(<<>>), i |-> k + 1]
                    ELSE ParseMembers(t, i + 1, <<>>)
            [] OTHER -> JsonFail)

\* JSON.parse(text): the JSON value the text denotes, or a SyntaxError
JsonParse(text) ==
  With(text, LAMBDA t :
    With(ParseValue(t, 1), LAMBDA r :
      IF r.ok /\ SkipWs(t, r.i) > Len(t) THEN r.v ELSE JSyntaxError))

(* ------------------------------ AES-GCM ------------------------------- *)
NoKey == <<>>
\* a CryptoKey is modelled by its raw bytes; importKey('raw', ...) accepts
\* 128, 192 and 256 bit keys only
AesKeyLengths == {16, 24, AesKeyBytes}
\* the n-th key drawn by crypto.subtle.generateKey: fresh for each n
GenKey(n) == Fill(AesKeyBytes, n)
\* (mutant) the same nonce at every draw
GenIvConstant(n) == Fill(IvLen, 0)

\* the n-th nonce drawn by crypto.getRandomValues: the generator is taken
\* to be ideal, no two draws return the same 96 bits
GenIv(n) == Fill(IvLen, n)

\* the GCM tag over a ciphertext: determined by key, nonce and plaintext
GcmTag(k, iv, data) == [k |-> k, iv |-> iv, pt |-> data]
\* crypto.subtle.encrypt({ name: 'AES-GCM', iv }, k, data): ciphertext and
\* tag as one opaque cell; pt is what the ciphertext bytes carry
AesGcmEncrypt(k, iv, data) ==
  <<[k |-> k, iv |-> iv, pt |-> data, tag |-> GcmTag(k, iv, data)]>>

\* (mutant) decryption without the tag check, as a bare stream cipher
AesGcmDecryptNoTag(k, iv, cipher) ==
  IF Len(cipher) = 1 /\ cipher[1].k = k /\ cipher[1].iv = iv
  THEN [ok |-> TRUE, pt |-> cipher[1].pt]
  ELSE [ok |-> FALSE, pt |-> <<>>]

\* crypto.subtle.decrypt: rejects (OperationError) unless the tag verifies
\* under the key and nonce given
AesGcmDecrypt(k, iv, cipher) ==
  IF Len(cipher) = 1 /\ cipher[1].tag = GcmTag(k, iv, cipher[1].pt)
  THEN [ok |-> TRUE, pt |-> cipher[1].pt]
  ELSE [ok |-> FALSE, pt |-> <<>>]

\* (mutant) the caller's key is ignored: a key is always generated
encryptJsonAesGcmFreshKey(obj, key, fresh, iv) ==
  [encrypted |-> <<FormatVersion>> \o iv
                   \o AesGcmEncrypt(fresh, iv, TextEncode(JsonStringify(obj))),
   key |-> fresh, iv |-> iv]

\* encryptJsonAesGcm(obj, key?): fresh is the key generateKey would return,
\* iv the nonce getRandomValues returns
encryptJsonAesGcm(obj, key, fresh, iv) ==
  LET data == TextEncode(JsonStringify(obj))
      k == IF key # NoKey THEN key ELSE fresh
      cipher == AesGcmEncrypt(k, iv, data)
  IN [encrypted |-> <<FormatVersion>> \o iv \o cipher, key |-> k, iv |-> iv]

\* (mutant) the version byte is not looked at
decryptJsonAesGcmAnyVersion(encrypted, key) ==
  LET iv == IF Len(encrypted) > IvLen THEN SubSeq(encrypted, 2, 1 + IvLen) ELSE <<>>
      cipher == IF Len(encrypted) > 1 + IvLen
                THEN SubSeq(encrypted, 2 + IvLen, Len(encrypted)) ELSE <<>>
      plain == AesGcmDecrypt(key, iv, cipher)
  IN IF ~plain.ok THEN [err |-> "OperationError", value |-> JUndefined]
     ELSE [err |-> "none", value |-> JNull]

SubSeqFrom(s, from) == IF from > Len(s) THEN <<>> ELSE SubSeq(s, from, Len(s))
\* Uint8Array.slice(a, b) with 0-based a and exclusive b
Slice(s, a, b) ==
  IF a >= Len(s) \/ b <= a THEN <<>>
  ELSE SubSeq(s, a + 1, IF b > Len(s) THEN Len(s) ELSE b)

\* decryptJsonAesGcm(encrypted, key)
decryptJsonAesGcm(encrypted, key) ==
  IF encrypted = <<>> \/ encrypted[1] # FormatVersion
  THEN [err |-> "Unsupported version", value |-> JUndefined]
  ELSE
    LET iv == Slice(encrypted, 1, 1 + IvLen)
        cipher == SubSeqFrom(encrypted, 2 + IvLen)
        plain == AesGcmDecrypt(key, iv, cipher)
    IN IF ~plain.ok THEN [err |-> "OperationError", value |-> JUndefined]
       ELSE LET parsed == JsonParse(TextDecode(plain.pt))
            IN IF parsed = JSyntaxError
               THEN [err |-> "SyntaxError", value |-> JUndefined]
               ELSE [err |-> "none", value |-> parsed]

(* ------------------------------ OpenPGP ------------------------------- *)
\* generateKeyPair: the n-th pair the library draws
generateKeyPair(n) ==
  [publicKeyArmored |-> [pair |-> n, half |-> "public"],
   privateKeyArmored |-> [pair |-> n, half |-> "private"]]
\* an armored string that is no key at all
GarbageArmored == [pair |-> 0, half |-> "garbage"]

UndefinedWrap == [kind |-> "undefined", to |-> 0, data |-> <<>>]
ThrownWrap == [kind |-> "thrown", to |-> 0, data |-> <<>>]

\* wrapKeyWithPGP(aesKey, recipientPublicKeyArmored): exportKey('raw'),
\* readKey (throws on an unparseable key), encrypt to the recipient
wrapKeyWithPGP(aesKey, recipientPublicKeyArmored) ==
  IF recipientPublicKeyArmored.half # "public" THEN ThrownWrap
  ELSE [kind |-> "pgp", to |-> recipientPublicKeyArmored.pair, data |-> aesKey]

\* openpgp.decrypt({ message, decryptionKeys, format }): NoKey-like failure
\* is reported by ok = FALSE; with the default format ('utf8') the literal
\* data comes back as a string decoded from the bytes
PgpDecrypt(wrappedArmored, privateKeyArmored, format) ==
  IF \/ privateKeyArmored.half # "private"
     \/ wrappedArmored.kind # "pgp"
     \/ wrappedArmored.to # privateKeyArmored.pair
  THEN [ok |-> FALSE, isString |-> FALSE, data |-> <<>>]
  ELSE IF format = "binary"
    THEN [ok |-> TRUE, isString |-> FALSE, data |-> wrappedArmored.data]
    ELSE [ok |-> TRUE, isString |-> TRUE, data |-> TextDecode(wrappedArmored.data)]

\* crypto.subtle.importKey('raw', raw, { name: 'AES-GCM' }, ...)
ImportRawKey(raw) == IF Len(raw) \in AesKeyLengths THEN raw ELSE NoKey

\* unwrapKeyWithPGP as in crypto/openpgp.ts: decrypt with the default format,
\* then typeof data === 'string' ? Buffer.from(data) : new Uint8Array(data)
unwrapKeyWithPGP(wrappedArmored, privateKeyArmored) ==
  LET d == PgpDecrypt(wrappedArmored, privateKeyArmored, "utf8")
      raw == IF d.isString THEN TextEncode(d.data) ELSE d.data
  IN IF ~d.ok THEN NoKey ELSE ImportRawKey(raw)

\* unwrapKeyWithPGP as in the sharing build of crypto/openpgp.ts:
\* format: 'binary', explicit length check
unwrapKeyWithPGPBinary(wrappedArmored, privateKeyArmored) ==
  LET d == PgpDecrypt(wrappedArmored, privateKeyArmored, "binary")
  IN IF ~d.ok \/ d.isString THEN NoKey
     ELSE IF Len(d.data) \notin AesKeyLengths THEN NoKey
     ELSE ImportRawKey(d.data)

\* wrapKeyForMultipleRecipients: Promise.all over the recipients; one
\* rejected wrap rejects the whole call (reported as <<>> with ok = FALSE)
wrapKeyForMultipleRecipients(aesKey, recipients) ==
  LET each == [i \in DOMAIN recipients |->
                 [userId |-> recipients[i].userId,
                  wrappedKey |-> wrapKeyWithPGP(aesKey, recipients[i].publicKeyArmored)]]
  IN IF \E i \in DOMAIN each : each[i].wrappedKey.kind = "thrown"
     THEN [ok |-> FALSE, wrappedKeys |-> <<>>]
     ELSE [ok |-> TRUE, wrappedKeys |-> each]

\* (mutant) the result of the unwrap is not checked before wrapping
reWrapKeyUnchecked(originalWrappedKey, originalPrivateKey, newRecipients) ==
  wrapKeyForMultipleRecipients(
    unwrapKeyWithPGPBinary(originalWrappedKey, originalPrivateKey), newRecipients)

\* reWrapKey: unwrap the original, then wrap for the new recipients
reWrapKey(originalWrappedKey, originalPrivateKey, newRecipients) ==
  LET aesKey == unwrapKeyWithPGPBinary(originalWrappedKey, originalPrivateKey)
  IN IF aesKey = NoKey THEN [ok |-> FALSE, wrappedKeys |-> <<>>]
     ELSE wrapKeyForMultipleRecipients(aesKey, newRecipients)

(* ====================== sharing: SDK and broker ======================= *)
VARIABLES
  docKeys,    \* broker: Firestore collection 'docKeys', kref -> document
  now,        \* broker: the last server timestamp handed out
  stored,     \* storage: the document's current stored payload (a blob)
  contentKey, \* owner: the content key the stored payload is encrypted under
  proc,       \* one record per client running ShareCore operations
  issued,     \* the wrap records returned by grant / reShare so far
  cached,     \* per user: the content keys the user has unwrapped
  nextKey,    \* how many keys generateDocumentKey has drawn
  started,    \* how many ShareCore operations were started
  faults      \* how many broker requests failed

shareVars == <<docKeys, now, stored, contentKey, proc, issued, cached,
               nextKey, started, faults>>

\* the cipher / key-wrap calls of one caller: inputs, results, position
VARIABLES cx
\* one Keys object (its cached pair) and what its caller holds
VARIABLES km
\* one DataCore with its storage adapter, and what its caller holds
VARIABLES dm
\* one UX mode object with the key service it talks to
VARIABLES em
\* state of the SDK that no broker request touches
localVars == <<cx, km, dm, em>>

Procs == {"c1", "c2"}
Users == {"bob", "charlie"}
UserOrder == <<"bob", "charlie">>
PairOf(u) == CHOOSE i \in DOMAIN UserOrder : UserOrder[i] = u
UserKeys(u) == generateKeyPair(PairOf(u))

\* the one shared document of the model
Collection == <<"notes">>
DocId == <<"d1">>
SharedDoc == JObj(<<[k |-> StrMsg, v |-> JStr(StrHi)]>>)

\* recipient lists a caller passes: one or two users, in UserOrder
Recipient(u) == [userId |-> u, publicKeyArmored |-> UserKeys(u).publicKeyArmored]
RecipientLists ==
  {<<Recipient(u)>> : u \in Users}
  \cup {<<Recipient(UserOrder[ij[1]]), Recipient(UserOrder[ij[2]])>> :
          ij \in {x \in (DOMAIN UserOrder) \X (DOMAIN UserOrder) : x[1] < x[2]}}
UserIds(recipients) == {recipients[i].userId : i \in DOMAIN recipients}

(* ------------------------------ broker -------------------------------- *)
NoKref == <<>>
\* const kref = `k_${collection}_${docId}`
DocKref(collection, docId) == <<"k", "_">> \o collection \o <<"_">> \o docId

\* a docKeys document; "" and 0 stand for an absent field
EmptyDoc == [alg |-> "", createdAt |-> 0, wrapped |-> <<>>, rotatedAt |-> 0]
DocAt(db, kref) == IF kref \in DOMAIN db THEN db[kref] ELSE EmptyDoc

\* (mutant) the field is added without looking for an existing one
MergeWrappedFieldAppend(wrapped, user, value) ==
  Append(wrapped, [userId |-> user, value |-> value])

\* (mutant) the whole wrapped map is dropped
DeleteWrappedFieldAll(wrapped, user) == <<>>

\* set({ [`wrapped.${user}`]: value }, { merge: true }): the field is
\* replaced when present and added when absent
MergeWrappedField(wrapped, user, value) ==
  IF \E i \in DOMAIN wrapped : wrapped[i].userId = user
  THEN [i \in DOMAIN wrapped |->
          IF wrapped[i].userId = user THEN [userId |-> user, value |-> value]
          ELSE wrapped[i]]
  ELSE Append(wrapped, [userId |-> user, value |-> value])

\* set({ [`wrapped.${user}`]: FieldValue.delete() }, { merge: true })
DeleteWrappedField(wrapped, user) ==
  SelectSeq(wrapped, LAMBDA e : e.userId # user)

NoBody == [collection |-> <<>>, docId |-> <<>>, kref |-> NoKref,
           recipientUserId |-> "", wrappedKey |-> UndefinedWrap, userId |-> ""]
\* a response body without a recipients member
UndefinedRecipients == [defined |-> FALSE, users |-> {}]
Response(status, kref) ==
  [status |-> status, kref |-> kref, wrappedKey |-> UndefinedWrap,
   recipients |-> UndefinedRecipients]

\* handleBroker: the response and the database after the request.
\* doc(kref) throws on an undefined kref, which the api handler turns into 500.
handleDocKey(body, db, ts) ==
  LET kref == DocKref(body.collection, body.docId)
      doc == [DocAt(db, kref) EXCEPT !.alg = "aes-gcm-256", !.createdAt = ts]
  IN [res |-> Response(200, kref), db |-> (kref :> doc) @@ db]

handleGrant(body, db, ts) ==
  IF body.kref = NoKref THEN [res |-> Response(500, NoKref), db |-> db]
  ELSE LET doc == DocAt(db, body.kref)
           wrapped == MergeWrappedField(doc.wrapped, body.recipientUserId,
                                        "WRAPPED_KEY_PLACEHOLDER")
       IN [res |-> Response(204, NoKref),
           db |-> (body.kref :> [doc EXCEPT !.wrapped = wrapped]) @@ db]

handleRevoke(body, db, ts) ==
  IF body.kref = NoKref THEN [res |-> Response(500, NoKref), db |-> db]
  ELSE LET doc == DocAt(db, body.kref)
           wrapped == DeleteWrappedField(doc.wrapped, body.userId)
       IN [res |-> Response(204, NoKref),
           db |-> (body.kref :> [doc EXCEPT !.wrapped = wrapped]) @@ db]

\* (mutant) rotation discards every recipient's wrapped key
handleRotateDropWraps(body, db, ts) ==
  IF body.kref = NoKref THEN [res |-> Response(500, NoKref), db |-> db]
  ELSE [res |-> Response(204, NoKref),
        db |-> (body.kref :> [DocAt(db, body.kref) EXCEPT !.rotatedAt = ts,
                                                         !.wrapped = <<>>]) @@ db]

\* /rotate: only the rotation time is recorded
handleRotate(body, db, ts) ==
  IF body.kref = NoKref THEN [res |-> Response(500, NoKref), db |-> db]
  ELSE [res |-> Response(204, NoKref),
        db |-> (body.kref :> [DocAt(db, body.kref) EXCEPT !.rotatedAt = ts]) @@ db]

handleBroker(path, body, db, ts) ==
  CASE path = "/v1/broker/doc-key" -> handleDocKey(body, db, ts)
    [] path = "/v1/broker/grant" -> handleGrant(body, db, ts)
    [] path = "/v1/broker/revoke" -> handleRevoke(body, db, ts)
    [] path = "/v1/broker/rotate" -> handleRotate(body, db, ts)
    [] OTHER -> [res |-> Response(404, NoKref), db |-> db]

\* the recipients the broker currently lists for a kref
RecipientSet(db, kref) == {e.userId : e \in Range(DocAt(db, kref).wrapped)}
TheKref == DocKref(Collection, DocId)

(* --------------------- CloudClient and ShareCore ---------------------- *)
\* A client between operations is "idle", "done" (the operation returned)
\* or "failed" (it threw).  The remaining fields are the operation's
\* parameters and locals; allOk .. rotated record what the operation saw.
IdleProc ==
  [op |-> "idle", pc |-> "idle", recipients |-> <<>>, userId |-> "",
   privateKey |-> GarbageArmored, documentKey |-> NoKey, wrappedKeys |-> <<>>,
   kref |-> NoKref, i |-> 0, fetched |-> UndefinedWrap,
   listed |-> UndefinedRecipients,
   allOk |-> TRUE, pre |-> <<>>, preCache |-> {}, preOpen |-> {}, seen |-> 0,
   unwrapped |-> FALSE, registered |-> {}, deleted |-> FALSE, rotated |-> FALSE]

Running(q) == proc[q].pc \notin {"idle", "done", "failed"}
CanStart(p, limit) == ~Running(p) /\ started < limit

\* the request the operation sends at its current step
RequestPath(pr) ==
  CASE pr.pc = "docKey" -> "/v1/broker/doc-key"
    [] pr.pc = "grant" -> "/v1/broker/grant"
    [] pr.pc = "revoke" -> "/v1/broker/revoke"
    [] pr.pc = "rotate" -> "/v1/broker/rotate"
    [] pr.pc \in {"getWrapped", "getWrappedKey"} -> "/v1/broker/get-wrapped-key"
    [] pr.pc = "listRecipients" -> "/v1/broker/list-recipients"
    [] OTHER -> ""

RequestBody(pr) ==
  CASE pr.pc = "docKey" -> [NoBody EXCEPT !.collection = Collection, !.docId = DocId]
    [] pr.pc = "grant" ->
         [NoBody EXCEPT !.kref = pr.kref,
                        !.recipientUserId = pr.wrappedKeys[pr.i].userId,
                        !.wrappedKey = pr.wrappedKeys[pr.i].wrappedKey]
    [] pr.pc = "revoke" -> [NoBody EXCEPT !.kref = pr.kref, !.userId = pr.userId]
    [] pr.pc = "rotate" -> [NoBody EXCEPT !.kref = pr.kref]
    [] pr.pc \in {"getWrapped", "getWrappedKey"} ->
         [NoBody EXCEPT !.collection = Collection, !.docId = DocId,
                        !.userId = pr.userId]
    [] pr.pc = "listRecipients" ->
         [NoBody EXCEPT !.collection = Collection, !.docId = DocId]
    [] OTHER -> NoBody

\* The operation's next step once post() has returned res.  post() returns
\* the parsed body whatever the status (undefined on 204): a 4xx/5xx answer
\* does not throw, its body has no kref and no wrappedKey.
AfterResponse(pr, res, db) ==
  LET ok == res.status \in {200, 204}
      q == [pr EXCEPT !.allOk = @ /\ ok]
  IN CASE pr.pc = "docKey" ->
            [q EXCEPT !.kref = res.kref,
                      !.seen = DocAt(db, TheKref).rotatedAt,
                      !.pc = IF pr.op = "revoke" THEN "revoke"
                             ELSE IF pr.wrappedKeys = <<>> THEN "done" ELSE "grant",
                      !.i = 1]
       [] pr.pc = "grant" ->
            [q EXCEPT !.registered =
                         IF ok THEN @ \cup {pr.wrappedKeys[pr.i].userId} ELSE @,
                      !.i = @ + 1,
                      !.pc = IF pr.i = Len(pr.wrappedKeys) THEN "done" ELSE "grant"]
       [] pr.pc = "revoke" -> [q EXCEPT !.deleted = ok, !.pc = "rotate"]
       [] pr.pc = "rotate" -> [q EXCEPT !.rotated = ok, !.pc = "done"]
       [] pr.pc = "getWrapped" -> [q EXCEPT !.fetched = res.wrappedKey, !.pc = "reWrap"]
       [] pr.pc = "getWrappedKey" ->
            [q EXCEPT !.fetched = res.wrappedKey, !.pre = DocAt(db, TheKref).wrapped,
                      !.pc = "done"]
       [] pr.pc = "listRecipients" ->
            [q EXCEPT !.listed = res.recipients, !.pre = DocAt(db, TheKref).wrapped,
                      !.pc = "done"]
       [] OTHER -> q

\* can key k open the stored payload
Decrypts(k) == decryptJsonAesGcm(stored, k).err = "none"
\* the users holding a returned wrap record that unwraps, under their own
\* private key, to a key that opens the stored payload
CanOpen(u) ==
  \E w \in issued :
    /\ w.userId = u
    /\ Decrypts(unwrapKeyWithPGPBinary(w.wrappedKey, UserKeys(u).privateKeyArmored))

\* what grant and reShare return to the caller
Returned(pr) ==
  IF pr.pc = "done" /\ pr.op \in {"grant", "reShare"}
  THEN {[userId |-> pr.wrappedKeys[i].userId, wrappedKey |-> pr.wrappedKeys[i].wrappedKey] :
          i \in DOMAIN pr.wrappedKeys}
  ELSE {}

\* ShareCore.grant up to its first broker request: choose or generate the
\* document key and wrap it for every recipient
ShareGrant(p, limit, recipients, supplied) ==
  /\ CanStart(p, limit)
  /\ LET documentKey == IF supplied THEN contentKey ELSE GenKey(nextKey)
         w == wrapKeyForMultipleRecipients(documentKey, recipients)
     IN proc' = [proc EXCEPT ![p] =
                   [IdleProc EXCEPT !.op = "grant",
                                    !.pc = IF w.ok THEN "docKey" ELSE "failed",
                                    !.recipients = recipients,
                                    !.documentKey = documentKey,
                                    !.wrappedKeys = w.wrappedKeys,
                                    !.pre = DocAt(docKeys, TheKref).wrapped]]
  /\ nextKey' = IF supplied THEN nextKey ELSE nextKey + 1
  /\ started' = started + 1
  /\ UNCHANGED <<localVars, docKeys, now, stored, contentKey, issued, cached, faults>>

\* ShareCore.revoke up to its first broker request
ShareRevoke(p, limit, userId) ==
  /\ CanStart(p, limit)
  /\ proc' = [proc EXCEPT ![p] =
                [IdleProc EXCEPT !.op = "revoke", !.pc = "docKey",
                                 !.userId = userId,
                                 !.pre = DocAt(docKeys, TheKref).wrapped,
                                 !.preCache = cached[userId],
                                 !.preOpen = {u \in Users : CanOpen(u)}]]
  /\ started' = started + 1
  /\ UNCHANGED <<localVars, docKeys, now, stored, contentKey, issued, cached, nextKey, faults>>

\* ShareCore.reShare up to its first broker request
ShareReShare(p, limit, currentUserId, newRecipients) ==
  /\ CanStart(p, limit)
  /\ currentUserId \notin UserIds(newRecipients)
  /\ proc' = [proc EXCEPT ![p] =
                [IdleProc EXCEPT !.op = "reShare", !.pc = "getWrapped",
                                 !.userId = currentUserId,
                                 !.privateKey = UserKeys(currentUserId).privateKeyArmored,
                                 !.recipients = newRecipients,
                                 !.pre = DocAt(docKeys, TheKref).wrapped]]
  /\ started' = started + 1
  /\ UNCHANGED <<localVars, docKeys, now, stored, contentKey, issued, cached, nextKey, faults>>

\* ShareCore.getWrappedKey up to its broker request
ShareGetWrappedKey(p, limit, userId) ==
  /\ CanStart(p, limit)
  /\ proc' = [proc EXCEPT ![p] =
                [IdleProc EXCEPT !.op = "getWrappedKey", !.pc = "getWrappedKey",
                                 !.userId = userId]]
  /\ started' = started + 1
  /\ UNCHANGED <<localVars, docKeys, now, stored, contentKey, issued, cached, nextKey, faults>>

\* ShareCore.listRecipients up to its broker request
ShareListRecipients(p, limit) ==
  /\ CanStart(p, limit)
  /\ proc' = [proc EXCEPT ![p] =
                [IdleProc EXCEPT !.op = "listRecipients", !.pc = "listRecipients"]]
  /\ started' = started + 1
  /\ UNCHANGED <<localVars, docKeys, now, stored, contentKey, issued, cached, nextKey, faults>>

\* reShare's reWrapKey call: throws unless the fetched wrap unwraps
ReShareReWrap(p) ==
  /\ proc[p].pc = "reWrap"
  /\ LET r == reWrapKey(proc[p].fetched, proc[p].privateKey, proc[p].recipients)
     IN proc' = [proc EXCEPT ![p] =
                   [@ EXCEPT !.pc = IF r.ok THEN "docKey" ELSE "failed",
                             !.unwrapped = r.ok,
                             !.wrappedKeys = r.wrappedKeys]]
  /\ UNCHANGED <<localVars, docKeys, now, stored, contentKey, issued, cached, nextKey,
                 started, faults>>

\* CloudClient.post answered by the api function: the request reaches
\* handleBroker, which runs to completion
PostHandled(p) ==
  /\ RequestPath(proc[p]) # ""
  /\ LET r == handleBroker(RequestPath(proc[p]), RequestBody(proc[p]), docKeys, now + 1)
         q == AfterResponse(proc[p], r.res, r.db)
     IN /\ docKeys' = r.db
        /\ now' = now + 1
        /\ proc' = [proc EXCEPT ![p] = q]
        /\ issued' = issued \cup Returned(q)
  /\ UNCHANGED <<localVars, stored, contentKey, cached, nextKey, started, faults>>

\* CloudClient.post answered with an error status before handleBroker ran
\* (401 unauthorized, 429 rate limit) or after it threw on the database
\* (5xx): nothing is written, post() returns the error body
PostRejected(p) ==
  /\ RequestPath(proc[p]) # ""
  /\ faults < MaxFaults
  /\ LET q == AfterResponse(proc[p], Response(503, NoKref), docKeys)
     IN /\ proc' = [proc EXCEPT ![p] = q]
        /\ issued' = issued \cup Returned(q)
  /\ faults' = faults + 1
  /\ UNCHANGED <<localVars, docKeys, now, stored, contentKey, cached, nextKey, started>>

\* CloudClient.post throws: request() rejected (the request was not sent)
PostThrows(p) ==
  /\ RequestPath(proc[p]) # ""
  /\ faults < MaxFaults
  /\ proc' = [proc EXCEPT ![p] = [@ EXCEPT !.pc = "failed", !.allOk = FALSE]]
  /\ faults' = faults + 1
  /\ UNCHANGED <<localVars, docKeys, now, stored, contentKey, issued, cached, nextKey, started>>

\* ShareCore.unwrapKey by a recipient on a wrap record returned for them
RecipientUnwrap(u) ==
  /\ \E w \in issued :
       /\ w.userId = u
       /\ LET key == unwrapKeyWithPGPBinary(w.wrappedKey, UserKeys(u).privateKeyArmored)
          IN /\ key # NoKey
             /\ key \notin cached[u]
             /\ cached' = [cached EXCEPT ![u] = @ \cup {key}]
  /\ UNCHANGED <<localVars, docKeys, now, stored, contentKey, proc, issued, nextKey,
                 started, faults>>

(* ------------------ cipher and key-wrap calls ------------------------- *)
\* raw keys a caller can hold: PrefixLen leading bytes drawn from ByteSamples
\* (ASCII 'A', the two bytes of U+00E9, and 0xFF, which no UTF-8 text
\* contains), the rest 'A', in each AES key length
ByteSamples == {65, 195, 169, 255}
KeySamples ==
  {[i \in 1..len |-> IF i <= PrefixLen THEN pre[i] ELSE 65] :
     pre \in [1..PrefixLen -> ByteSamples], len \in AesKeyLengths}
KeyPairIds == {1, 2}

IdleCx ==
  [mode |-> "idle", phase |-> "idle", payload |-> JNull, key |-> NoKey,
   enc |-> [encrypted |-> <<>>, key |-> NoKey, iv |-> <<>>],
   log |-> <<>>, blob |-> <<>>, tamper |-> "none",
   decKey |-> NoKey, dec |-> [err |-> "", value |-> JUndefined],
   aesKey |-> NoKey, pair |-> 0, wrapped |-> UndefinedWrap,
   privPair |-> 0, binary |-> FALSE, unwrapped |-> NoKey,
   recipients |-> <<>>, many |-> [ok |-> FALSE, wrappedKeys |-> <<>>]]

\* a caller about to encrypt payload (with or without a key of its own), or
\* about to wrap aesKey for the holder of key pair `pair`
CryptoInit ==
  \/ \E payload \in JsonValues \cup NonJsonValues, key \in {NoKey, GenKey(7)} :
       cx = [IdleCx EXCEPT !.mode = "cipher", !.phase = "input",
                           !.payload = payload, !.key = key]
  \/ \E aesKey \in KeySamples, pair \in KeyPairIds :
       cx = [IdleCx EXCEPT !.mode = "wrap", !.phase = "input",
                           !.aesKey = aesKey, !.pair = pair]

\* encryptJsonAesGcm(payload, key?): the caller's first call takes the
\* inputs it started with; a later call takes the same or another payload,
\* under the key of the first call or under no key.  log keeps every call.
CipherEncrypt ==
  /\ cx.mode = "cipher" /\ cx.phase \in {"input", "encrypted"}
  /\ cx.tamper = "none"
  /\ Len(cx.log) < MaxEncrypts
  /\ LET n == Len(cx.log) + 1
     IN \E obj \in IF n = 1 THEN {cx.payload} ELSE {cx.payload, JNull},
           key \in IF n = 1 THEN {cx.key} ELSE {cx.enc.key, NoKey} :
          LET out == encryptJsonAesGcm(obj, key, GenKey(n), GenIv(n))
              first == IF n = 1 THEN out ELSE cx.enc
          IN cx' = [cx EXCEPT !.enc = first,
                              !.blob = first.encrypted,
                              !.log = Append(@, [obj |-> obj, out |-> out]),
                              !.phase = "encrypted"]
  /\ UNCHANGED <<shareVars, km, dm, em>>

\* one bit of a byte string flipped (its first byte's lowest bit)
FlipBit(bytes) ==
  [i \in DOMAIN bytes |->
     IF i = 1 THEN (IF bytes[i] % 2 = 0 THEN bytes[i] + 1 ELSE bytes[i] - 1)
     ELSE bytes[i]]

\* what a party without the key can turn a blob into: a bit of the
\* ciphertext flipped (the bytes then carry another plaintext, the tag is
\* the old one), a bit of the tag flipped, another version byte, the
\* ciphertext and tag cut off, nothing at all
TamperKinds == {"ciphertext", "tag", "version", "truncated", "empty"}
Tampered(blob, kind) ==
  LET cell == blob[Len(blob)]
      head == SubSeq(blob, 1, Len(blob) - 1)
  IN CASE kind = "ciphertext" -> head \o <<[cell EXCEPT !.pt = FlipBit(@)]>>
       [] kind = "tag" ->
            head \o <<[cell EXCEPT !.tag = [k |-> cell.tag.k, iv |-> cell.tag.iv,
                                            pt |-> cell.tag.pt, flipped |-> TRUE]]>>
       [] kind = "version" -> <<FormatVersion + 1>> \o Tail(blob)
       [] kind = "truncated" -> head
       [] OTHER -> <<>>

\* the stored blob is modified before it is handed to decrypt
CipherTamper ==
  /\ cx.mode = "cipher" /\ cx.phase = "encrypted"
  /\ cx.tamper = "none"
  /\ \E kind \in TamperKinds :
       /\ kind = "ciphertext" => cx.blob[Len(cx.blob)].pt # <<>>
       /\ cx' = [cx EXCEPT !.blob = Tampered(cx.blob, kind), !.tamper = kind]
  /\ UNCHANGED <<shareVars, km, dm, em>>

\* decryptJsonAesGcm(blob, k) with the key the caller passed to encrypt, the
\* key encrypt returned, or another key
CipherDecrypt ==
  /\ cx.mode = "cipher" /\ cx.phase = "encrypted"
  /\ \E k \in {cx.key, cx.enc.key, GenKey(9)} \ {NoKey} :
       cx' = [cx EXCEPT !.decKey = k,
                        !.dec = decryptJsonAesGcm(cx.blob, k),
                        !.phase = "decrypted"]
  /\ UNCHANGED <<shareVars, km, dm, em>>

\* wrapKeyWithPGP(aesKey, publicKeyArmored)
WrapKey ==
  /\ cx.mode = "wrap" /\ cx.phase = "input"
  /\ cx' = [cx EXCEPT !.wrapped =
                        wrapKeyWithPGP(cx.aesKey, generateKeyPair(cx.pair).publicKeyArmored),
                      !.phase = "wrapped"]
  /\ UNCHANGED <<shareVars, km, dm, em>>

\* recipients a caller names: holders of a key pair, or a user whose
\* registered public key is no key
WrapRecipients ==
  {[userId |-> UserOrder[n], publicKeyArmored |-> generateKeyPair(n).publicKeyArmored] :
     n \in KeyPairIds}
  \cup {[userId |-> "mallory", publicKeyArmored |-> GarbageArmored]}
\* wrapKeyForMultipleRecipients(aesKey, recipients) for two recipients
WrapMany ==
  /\ cx.mode = "wrap" /\ cx.phase = "input"
  /\ \E r1 \in WrapRecipients : \E r2 \in WrapRecipients \ {r1} :
       cx' = [cx EXCEPT !.recipients = <<r1, r2>>,
                        !.many = wrapKeyForMultipleRecipients(cx.aesKey, <<r1, r2>>),
                        !.phase = "wrappedMany"]
  /\ UNCHANGED <<shareVars, km, dm, em>>

\* unwrapKeyWithPGP(wrapped, privateKeyArmored) of crypto/openpgp.ts
UnwrapKey ==
  /\ cx.mode = "wrap" /\ cx.phase = "wrapped"
  /\ \E pp \in KeyPairIds :
       cx' = [cx EXCEPT !.privPair = pp, !.binary = FALSE,
                        !.unwrapped = unwrapKeyWithPGP(
                           cx.wrapped, generateKeyPair(pp).privateKeyArmored),
                        !.phase = "unwrapped"]
  /\ UNCHANGED <<shareVars, km, dm, em>>

\* unwrapKeyWithPGP(wrapped, privateKeyArmored) of the sharing build
UnwrapKeyBinary ==
  /\ cx.mode = "wrap" /\ cx.phase = "wrapped"
  /\ \E pp \in KeyPairIds :
       cx' = [cx EXCEPT !.privPair = pp, !.binary = TRUE,
                        !.unwrapped = unwrapKeyWithPGPBinary(
                           cx.wrapped, generateKeyPair(pp).privateKeyArmored),
                        !.phase = "unwrapped"]
  /\ UNCHANGED <<shareVars, km, dm, em>>

(* =============================== Keys ================================= *)
\* property names
KPrivateKey == <<112, 114, 105, 118, 97, 116, 101, 75, 101, 121>>
KPublicKey == <<112, 117, 98, 108, 105, 99, 75, 101, 121>>
KMetadata == <<109, 101, 116, 97, 100, 97, 116, 97>>
KExportedAt == <<101, 120, 112, 111, 114, 116, 101, 100, 65, 116>>

\* the armored text of a key: ASCII lines
ArmoredText(key) ==
  <<45, 45, IF key.half = "private" THEN 83 ELSE 80, 10, 48 + key.pair, 10>>
\* the KeyPair generateKeyPair returns at its n-th call, as Keys holds it
KeyPairOf(n) ==
  [defined |-> TRUE,
   privateKeyArmored |-> JStr(ArmoredText(generateKeyPair(n).privateKeyArmored)),
   publicKeyArmored |-> JStr(ArmoredText(generateKeyPair(n).publicKeyArmored))]
\* this.cached === undefined
NoKeyPair ==
  [defined |-> FALSE, privateKeyArmored |-> JUndefined, publicKeyArmored |-> JUndefined]

\* JavaScript truthiness of a value
Truthy(v) ==
  CASE v.t \in {"null", "undefined", "nan"} -> FALSE
    [] v.t = "bool" -> v.n = 1
    [] v.t = "num" -> v.n # 0
    [] v.t = "str" -> v.s # <<>>
    [] OTHER -> TRUE
\* reading a property throws on null and undefined
CanRead(v) == v.t \notin {"null", "undefined"}
\* v[name] for a value that can be read
Prop(v, name) ==
  IF v.t = "obj" /\ \E i \in DOMAIN v.kids : v.kids[i].k = name
  THEN v.kids[CHOOSE i \in DOMAIN v.kids : v.kids[i].k = name].v
  ELSE JUndefined

\* crypto.subtle.digest('SHA-256', data): 32 bytes, taken to be free of
\* collisions (the digest stands for the data it was computed from)
Sha256(data) == Fill(AesKeyBytes, data)
\* Keys.deriveKeyFromPassphrase: one SHA-256 of the UTF-8 passphrase
deriveKeyFromPassphrase(passphrase) == ImportRawKey(Sha256(TextEncode(passphrase)))

\* backupData === null
NoBackupData ==
  [defined |-> FALSE, method |-> "", encryptedPrivateKey |-> <<>>,
   privateKey |-> JUndefined, publicKey |-> JUndefined,
   metadata |-> JUndefined, createdAt |-> 0]

\* (mutant) backup that salts the passphrase, which restore does not
KeysBackupSalted(thisCached, method, passphrase, metadata, iv, ts) ==
  IF thisCached.defined /\ method = "phrase" /\ passphrase # <<>>
  THEN [thrown |-> FALSE, success |-> TRUE,
        backupData |->
          [NoBackupData EXCEPT
             !.defined = TRUE, !.method = method,
             !.publicKey = thisCached.publicKeyArmored, !.createdAt = ts,
             !.encryptedPrivateKey =
               encryptJsonAesGcm(
                 JObj(<<[k |-> KPrivateKey, v |-> thisCached.privateKeyArmored],
                        [k |-> KMetadata, v |-> metadata]>>),
                 deriveKeyFromPassphrase(passphrase \o <<0>>), GenKey(0), iv).encrypted]]
  ELSE [thrown |-> ~thisCached.defined, success |-> FALSE, backupData |-> NoBackupData]

\* Keys.backup(options): passphrase <<>> is an absent or empty passphrase.
\* thrown: the call rejects (no keys); otherwise { backupData, success }.
KeysBackup(thisCached, method, passphrase, metadata, iv, ts) ==
  LET failed == [thrown |-> FALSE, success |-> FALSE, backupData |-> NoBackupData]
      done(data) == [thrown |-> FALSE, success |-> TRUE, backupData |-> data]
      base == [NoBackupData EXCEPT !.defined = TRUE, !.method = method,
                                   !.publicKey = thisCached.publicKeyArmored,
                                   !.createdAt = ts]
  IN IF ~thisCached.defined
     THEN [thrown |-> TRUE, success |-> FALSE, backupData |-> NoBackupData]
     ELSE CASE method = "phrase" ->
                 IF passphrase = <<>> THEN failed
                 ELSE LET out == encryptJsonAesGcm(
                                   JObj(<<[k |-> KPrivateKey, v |-> thisCached.privateKeyArmored],
                                          [k |-> KMetadata, v |-> metadata]>>),
                                   deriveKeyFromPassphrase(passphrase), GenKey(0), iv)
                      IN done([base EXCEPT !.encryptedPrivateKey = out.encrypted])
            [] method = "file" ->
                 done([base EXCEPT !.privateKey = thisCached.privateKeyArmored,
                                   !.metadata = metadata])
            [] method = "webauthn" -> done([base EXCEPT !.metadata = metadata])
            [] OTHER -> failed

\* (mutant) restore that does not assign this.cached
KeysRestoreNoAdopt(thisCached, method, passphrase, backupData) ==
  LET d == decryptJsonAesGcm(backupData.encryptedPrivateKey,
                             deriveKeyFromPassphrase(passphrase))
      ok == /\ method = "phrase" /\ passphrase # <<>> /\ backupData.defined
            /\ backupData.encryptedPrivateKey # <<>>
            /\ d.err = "none" /\ CanRead(d.value)
  IN IF ok
     THEN [success |-> TRUE,
           keyPair |-> [defined |-> TRUE,
                        privateKeyArmored |-> Prop(d.value, KPrivateKey),
                        publicKeyArmored |-> backupData.publicKey],
           cached |-> thisCached]
     ELSE [success |-> FALSE, keyPair |-> NoKeyPair, cached |-> thisCached]

\* (mutant) restore that does not look at the result of decryption
KeysRestoreAnySecret(thisCached, method, passphrase, backupData) ==
  LET kp == [defined |-> TRUE, privateKeyArmored |-> JUndefined,
             publicKeyArmored |-> backupData.publicKey]
  IN [success |-> TRUE, keyPair |-> kp, cached |-> kp]

\* (mutant) restore that clears this.cached before it tries to recover
KeysRestoreClearFirst(thisCached, method, passphrase, backupData) ==
  LET r == KeysRestoreNoAdopt(NoKeyPair, method, passphrase, backupData)
  IN IF r.success THEN [r EXCEPT !.cached = r.keyPair] ELSE r

\* Keys.restore(options): { success, keyPair? } and this.cached afterwards
KeysRestore(thisCached, method, passphrase, backupData) ==
  LET failed == [success |-> FALSE, keyPair |-> NoKeyPair, cached |-> thisCached]
      done(kp) == [success |-> TRUE, keyPair |-> kp, cached |-> kp]
  IN CASE method = "phrase" ->
            IF \/ passphrase = <<>>
               \/ ~backupData.defined
               \/ backupData.encryptedPrivateKey = <<>>
            THEN failed
            ELSE LET d == decryptJsonAesGcm(backupData.encryptedPrivateKey,
                                            deriveKeyFromPassphrase(passphrase))
                 IN IF d.err # "none" \/ ~CanRead(d.value) THEN failed
                    ELSE done([defined |-> TRUE,
                               privateKeyArmored |-> Prop(d.value, KPrivateKey),
                               publicKeyArmored |-> backupData.publicKey])
       [] method = "file" ->
            IF \/ ~backupData.defined
               \/ ~Truthy(backupData.privateKey)
               \/ ~Truthy(backupData.publicKey)
            THEN failed
            ELSE done([defined |-> TRUE,
                       privateKeyArmored |-> backupData.privateKey,
                       publicKeyArmored |-> backupData.publicKey])
       [] OTHER -> failed

\* (mutant) ensure that always generates
KeysEnsureAlwaysNew(thisCached, fresh) == [keyPair |-> fresh, generated |-> 1]

\* Keys.ensure(): the thisCached pair, or a generated one that is then thisCached
KeysEnsure(thisCached, fresh) ==
  IF thisCached.defined THEN [keyPair |-> thisCached, generated |-> 0]
  ELSE [keyPair |-> fresh, generated |-> 1]

\* (mutant) rotate that keeps a pair it already has
KeysRotateKeep(thisCached, fresh) == IF thisCached.defined THEN thisCached ELSE fresh

\* Keys.rotate(): this.cached = await generateKeyPair()
KeysRotate(thisCached, fresh) == fresh

\* Keys.export(format): the private key, or both halves and a time stamp as
\* indented JSON text; throws without a thisCached pair
KeysExport(thisCached, format, ts) ==
  IF ~thisCached.defined THEN [thrown |-> TRUE, value |-> JUndefined]
  ELSE IF format = "armored"
    THEN [thrown |-> FALSE, value |-> thisCached.privateKeyArmored]
    ELSE [thrown |-> FALSE,
          value |-> JStr(JsonStringifyIndent(
                      JObj(<<[k |-> KPrivateKey, v |-> thisCached.privateKeyArmored],
                             [k |-> KPublicKey, v |-> thisCached.publicKeyArmored],
                             [k |-> KExportedAt, v |-> JNum(ts)]>>), 0))]

\* Keys.import(keyData, format): this.cached afterwards; throws when the
\* text does not parse or parses to null (keyData is the value passed: a
\* string, or undefined when export returned a missing private key)
KeysImport(thisCached, keyData, format) ==
  IF format = "armored"
  THEN [thrown |-> FALSE,
        cached |-> [defined |-> TRUE, privateKeyArmored |-> keyData,
                    publicKeyArmored |-> JStr(<<>>)]]
  ELSE LET parsed == IF keyData.t = "str" THEN JsonParse(keyData.s) ELSE JSyntaxError
       IN IF parsed = JSyntaxError \/ ~CanRead(parsed)
          THEN [thrown |-> TRUE, cached |-> thisCached]
          ELSE [thrown |-> FALSE,
                cached |-> [defined |-> TRUE,
                            privateKeyArmored |-> Prop(parsed, KPrivateKey),
                            publicKeyArmored |-> Prop(parsed, KPublicKey)]]

(* --------------------------- calls on Keys ---------------------------- *)
\* passphrases a caller can pass: none or empty, "p", a string that is one
\* unpaired surrogate, and U+FFFD
Passphrases == {<<>>, <<112>>, <<55296>>, <<65533>>}
MetadataSamples == {JUndefined, JObj(<<[k |-> StrMsg, v |-> JBool(TRUE)]>>)}
\* 'cloud' stands for any method string the switch does not know
Methods == {"phrase", "file", "webauthn", "cloud"}
KeyOptions ==
  {[method |-> m, passphrase |-> pw] :
     m \in Methods, pw \in Passphrases} \ 
  {o \in [method : Methods \ {"phrase"}, passphrase : Passphrases \ {<<>>}] : TRUE}

\* what the caller remembers of the call before: its inputs and results,
\* and the state of the Keys object it started from
IdleLast ==
  [op |-> "none", method |-> "", format |-> "", passphrase |-> <<>>,
   success |-> FALSE, thrown |-> FALSE, keyPair |-> NoKeyPair,
   value |-> JUndefined, data |-> NoBackupData, generated |-> 0,
   matched |-> FALSE, prev |-> NoKeyPair, adopted |-> NoKeyPair,
   ensured |-> NoKeyPair, record |-> NoBackupData]
\* cached: this.cached; pairs: generateKeyPair calls so far; record: the
\* latest backup with the passphrase and pair it was made from; exported:
\* the latest export; adopted: the pair a successful restore adopted, until
\* rotate or import; ensured: the pair ensure last returned, until rotate,
\* restore or import
\* the two callers whose calls on one Keys object overlap
KeyCalls == {"a", "b"}
\* a call in flight: the method, where it stands (idle, generating,
\* encrypting, done), what it read before its await, and what it returned
IdleCall ==
  [op |-> "none", pc |-> "idle", sawNone |-> FALSE, priv |-> JUndefined,
   keyPair |-> NoKeyPair, data |-> NoBackupData]
\* overlapping calls, and every pair this.cached has held so far
IdleConc == [calls |-> [c \in KeyCalls |-> IdleCall], identities |-> {}]
IdleKm ==
  [conc |-> IdleConc,
   cached |-> NoKeyPair, pairs |-> 0, steps |-> 0,
   record |-> [data |-> NoBackupData, passphrase |-> <<>>, pair |-> NoKeyPair],
   exported |-> [has |-> FALSE, value |-> JUndefined, format |-> "", pair |-> NoKeyPair],
   adopted |-> NoKeyPair, ensured |-> NoKeyPair, last |-> IdleLast]
Before(op) ==
  [IdleLast EXCEPT !.op = op, !.prev = km.cached, !.adopted = km.adopted,
                   !.ensured = km.ensured, !.record = km.record.data]

CallEnsure ==
  /\ km.steps < MaxKeyOps
  /\ LET r == KeysEnsure(km.cached, KeyPairOf(km.pairs + 1))
     IN km' = [km EXCEPT !.cached = r.keyPair,
                         !.pairs = @ + r.generated,
                         !.steps = @ + 1,
                         !.ensured = r.keyPair,
                         !.last = [Before("ensure") EXCEPT !.keyPair = r.keyPair,
                                                           !.generated = r.generated]]
  /\ UNCHANGED <<shareVars, cx, dm, em>>

CallRotate ==
  /\ km.steps < MaxKeyOps
  /\ km' = [km EXCEPT !.cached = KeysRotate(km.cached, KeyPairOf(km.pairs + 1)),
                      !.pairs = @ + 1,
                      !.steps = @ + 1,
                      !.adopted = NoKeyPair,
                      !.ensured = NoKeyPair,
                      !.last = [Before("rotate") EXCEPT !.generated = 1]]
  /\ UNCHANGED <<shareVars, cx, dm, em>>

CallBackup ==
  /\ km.steps < MaxKeyOps
  /\ \E o \in KeyOptions, metadata \in MetadataSamples :
       LET r == KeysBackup(km.cached, o.method, o.passphrase, metadata,
                           GenIv(km.steps + 1), km.steps + 1)
       IN km' = [km EXCEPT
                   !.steps = @ + 1,
                   !.record = IF r.success
                              THEN [data |-> r.backupData, passphrase |-> o.passphrase,
                                    pair |-> km.cached]
                              ELSE @,
                   !.last = [Before("backup") EXCEPT !.method = o.method,
                                                     !.passphrase = o.passphrase,
                                                     !.success = r.success,
                                                     !.thrown = r.thrown,
                                                     !.data = r.backupData]]
  /\ UNCHANGED <<shareVars, cx, dm, em>>

\* restore with the latest backup record or with no backup data
CallRestore ==
  /\ km.steps < MaxKeyOps
  /\ \E o \in KeyOptions, fromRecord \in BOOLEAN :
       LET r == KeysRestore(km.cached, o.method, o.passphrase,
                            IF fromRecord THEN km.record.data ELSE NoBackupData)
       IN km' = [km EXCEPT
                   !.cached = r.cached,
                   !.steps = @ + 1,
                   !.adopted = IF r.success THEN r.keyPair ELSE @,
                   !.ensured = IF r.success THEN NoKeyPair ELSE @,
                   !.last = [Before("restore") EXCEPT !.method = o.method,
                                                      !.passphrase = o.passphrase,
                                                      !.success = r.success,
                                                      !.keyPair = r.keyPair,
                                                      !.matched = fromRecord]]
  /\ UNCHANGED <<shareVars, cx, dm, em>>

CallExport ==
  /\ km.steps < MaxKeyOps
  /\ \E format \in {"armored", "json"} :
       LET r == KeysExport(km.cached, format, km.steps + 1)
       IN km' = [km EXCEPT
                   !.steps = @ + 1,
                   !.exported = IF r.thrown THEN @
                                ELSE [has |-> TRUE, value |-> r.value,
                                      format |-> format, pair |-> km.cached],
                   !.last = [Before("export") EXCEPT !.format = format,
                                                     !.thrown = r.thrown,
                                                     !.value = r.value]]
  /\ UNCHANGED <<shareVars, cx, dm, em>>

\* import of the latest export, or of a text that is no key and no JSON
CallImport ==
  /\ km.steps < MaxKeyOps
  /\ \E format \in {"armored", "json"},
        keyData \in {JStr(<<123>>)} \cup (IF km.exported.has THEN {km.exported.value} ELSE {}) :
       LET r == KeysImport(km.cached, keyData, format)
       IN km' = [km EXCEPT
                   !.cached = r.cached,
                   !.steps = @ + 1,
                   !.adopted = IF r.thrown THEN @ ELSE NoKeyPair,
                   !.ensured = IF r.thrown THEN @ ELSE NoKeyPair,
                   !.last = [Before("import") EXCEPT
                               !.format = format,
                               !.thrown = r.thrown,
                               !.value = keyData,
                               !.matched = km.exported.has /\ keyData = km.exported.value]]
  /\ UNCHANGED <<shareVars, cx, dm, em>>

(* ------------------- overlapping calls on one Keys -------------------- *)
\* Each action is the part of a method that runs between two awaits.
CanStartCall(c) == km.steps < MaxKeyOps /\ km.conc.calls[c].pc \in {"idle", "done"}
\* this.cached = kp
Assign(kp) ==
  [km EXCEPT !.cached = kp, !.conc.identities = @ \cup {kp}]

\* ensure() up to its await: returns the cached pair, or calls generateKeyPair
StartEnsure(c) ==
  /\ CanStartCall(c)
  /\ km' = [km EXCEPT
              !.steps = @ + 1,
              !.conc.calls[c] =
                IF km.cached.defined
                THEN [IdleCall EXCEPT !.op = "ensure", !.pc = "done",
                                      !.keyPair = KeysEnsure(km.cached, NoKeyPair).keyPair]
                ELSE [IdleCall EXCEPT !.op = "ensure", !.pc = "generating",
                                      !.sawNone = TRUE]]
  /\ UNCHANGED <<shareVars, cx, dm, em>>

\* rotate() up to its await
StartRotate(c) ==
  /\ CanStartCall(c)
  /\ km' = [km EXCEPT !.steps = @ + 1,
                      !.conc.calls[c] = [IdleCall EXCEPT !.op = "rotate",
                                                         !.pc = "generating"]]
  /\ UNCHANGED <<shareVars, cx, dm, em>>

\* generateKeyPair resolves: ensure and rotate assign this.cached
KeyPairGenerated(c) ==
  /\ km.conc.calls[c].pc = "generating"
  /\ LET kp == KeysRotate(km.cached, KeyPairOf(km.pairs + 1))
     IN km' = [Assign(kp) EXCEPT
                 !.pairs = @ + 1,
                 !.conc.calls[c] = [@ EXCEPT !.pc = "done", !.keyPair = kp]]
  /\ UNCHANGED <<shareVars, cx, dm, em>>

\* backup({ method: 'phrase', passphrase: 'p' }) up to its first await: the
\* object literal has read this.cached.privateKeyArmored
StartBackup(c) ==
  /\ CanStartCall(c)
  /\ km' = [km EXCEPT
              !.steps = @ + 1,
              !.conc.calls[c] =
                IF km.cached.defined
                THEN [IdleCall EXCEPT !.op = "backup", !.pc = "encrypting",
                                      !.priv = km.cached.privateKeyArmored]
                ELSE [IdleCall EXCEPT !.op = "backup", !.pc = "done"]]
  /\ UNCHANGED <<shareVars, cx, dm, em>>

\* backup after deriveKeyFromPassphrase and encryptJsonAesGcm resolved: the
\* record takes publicKey from this.cached as it is now
BackupEncrypted(c) ==
  /\ km.conc.calls[c].pc = "encrypting"
  /\ LET seen == [defined |-> TRUE, privateKeyArmored |-> km.conc.calls[c].priv,
                  publicKeyArmored |-> km.cached.publicKeyArmored]
         r == KeysBackup(seen, "phrase", <<112>>, JUndefined, GenIv(km.steps), km.steps)
     IN km' = [km EXCEPT !.conc.calls[c] = [@ EXCEPT !.pc = "done",
                                                     !.data = r.backupData]]
  /\ UNCHANGED <<shareVars, cx, dm, em>>

\* import(keyData): no await, so the whole method is one step
ImportArmored(c) ==
  /\ CanStartCall(c)
  /\ LET r == KeysImport(km.cached, JStr(<<120>>), "armored")
     IN km' = [Assign(r.cached) EXCEPT
                 !.steps = @ + 1,
                 !.conc.calls[c] = [IdleCall EXCEPT !.op = "import", !.pc = "done"]]
  /\ UNCHANGED <<shareVars, cx, dm, em>>

(* ============================== DataCore ============================== *)
\* property names, mode tags and the names of the sample fields
KMode == <<95, 95, 109, 111, 100, 101>>
KIv == <<95, 95, 105, 118>>
KBlob == <<95, 95, 98, 108, 111, 98>>
KDoc == <<100, 111, 99>>
StrNone == <<110, 111, 110, 101>>
StrField == <<102, 105, 101, 108, 100>>
FSsn == <<115, 115, 110>>
FName == <<110, 97, 109, 101>>
FZip == <<122, 105, 112>>

\* own properties of an object: test, assignment (an existing property keeps
\* its place, a new one goes last) and delete
ObjHas(o, name) == \E i \in DOMAIN o.kids : o.kids[i].k = name
ObjSet(o, name, v) ==
  IF ObjHas(o, name)
  THEN JObj([i \in DOMAIN o.kids |->
               IF o.kids[i].k = name THEN [k |-> name, v |-> v] ELSE o.kids[i]])
  ELSE JObj(Append(o.kids, [k |-> name, v |-> v]))
ObjDelete(o, name) == JObj(SelectSeq(o.kids, LAMBDA p : p.k # name))

\* what a storage adapter holds for one document: the bytes of a JSON text,
\* or an AES-GCM blob.  For a field-mode record the numbers of __blob are
\* kept in blob and the text carries an empty array in their place.
TextRecord(text, blob) == [kind |-> "text", text |-> text, blob |-> blob]
CipherRecord(blob) == [kind |-> "cipher", text |-> <<>>, blob |-> blob]
\* JSON.parse(new TextDecoder().decode(bytes)): a blob starts with the
\* version byte 1, and U+0001 starts no JSON text
StoredParse(rec) ==
  IF rec.kind = "cipher" THEN JSyntaxError ELSE JsonParse(TextDecode(rec.text))

\* p.policy: absent, or { encryption, fields? } (fields absent is <<>>,
\* as policy.fields || [] reads it)
NoPolicy == [given |-> FALSE, encryption |-> "", fields |-> <<>>]
Policy(encryption, fields) == [given |-> TRUE, encryption |-> encryption, fields |-> fields]

RECURSIVE ExtractFields(_, _, _, _)
\* the loop of create over policy.fields: protectedObj[f] = doc[f]; delete partial[f]
ExtractFields(doc, fields, partial, protectedObj) ==
  IF fields = <<>> THEN [partial |-> partial, protectedObj |-> protectedObj]
  ELSE ExtractFields(doc, Tail(fields), ObjDelete(partial, Head(fields)),
                     ObjSet(protectedObj, Head(fields), Prop(doc, Head(fields))))

\* DataCore.create up to the storage call: the bytes handed to storage and
\* the key to retain.  encryptJsonAesGcm is called with an options object
\* that carries no key, so a key is generated.
DataCoreEncode(defaultMode, doc, policy, fresh, iv) ==
  LET encryption == IF policy.given THEN policy.encryption ELSE defaultMode
  IN CASE encryption = "none" ->
            [encrypted |-> TextRecord(TextEncode(JsonStringify(
                             JObj(<<[k |-> KMode, v |-> JStr(StrNone)],
                                    [k |-> KDoc, v |-> doc]>>))), <<>>),
             key |-> NoKey]
       [] encryption = "field" ->
            LET x == ExtractFields(doc, policy.fields, doc, JObj(<<>>))
                r == encryptJsonAesGcm(x.protectedObj, NoKey, fresh, iv)
                partial == ObjSet(ObjSet(ObjSet(x.partial, KMode, JStr(StrField)),
                                         KIv, JNull), KBlob, JArr(<<>>))
            IN [encrypted |-> TextRecord(TextEncode(JsonStringify(partial)), r.encrypted),
                key |-> r.key]
       [] OTHER ->
            LET r == encryptJsonAesGcm(doc, NoKey, fresh, iv)
            IN [encrypted |-> CipherRecord(r.encrypted), key |-> r.key]

\* (mutant) update that never reuses the retained key
DataCoreEncodeUpdateFreshKey(defaultMode, key, doc, policy, fresh, iv, ivSpare) ==
  LET encryption == IF policy.given THEN policy.encryption ELSE defaultMode
      r == encryptJsonAesGcm(doc, NoKey, fresh, iv)
  IN IF encryption = "none"
     THEN [encrypted |-> TextRecord(TextEncode(JsonStringify(
                           JObj(<<[k |-> KMode, v |-> JStr(StrNone)],
                                  [k |-> KDoc, v |-> doc]>>))), <<>>),
           key |-> key]
     ELSE [encrypted |-> CipherRecord(r.encrypted), key |-> r.key]

\* DataCore.update up to the storage call: key is the key retained for the
\* document (NoKey when there is none).  In document mode a missing key is
\* taken from a first encryptJsonAesGcm call (ivSpare is its nonce) and the
\* document is then encrypted with options.key set.
DataCoreEncodeUpdate(defaultMode, key, doc, policy, fresh, iv, ivSpare) ==
  LET encryption == IF policy.given THEN policy.encryption ELSE defaultMode
  IN CASE encryption = "none" ->
            [encrypted |-> TextRecord(TextEncode(JsonStringify(
                             JObj(<<[k |-> KMode, v |-> JStr(StrNone)],
                                    [k |-> KDoc, v |-> doc]>>))), <<>>),
             key |-> key]
       [] encryption = "field" ->
            LET x == ExtractFields(doc, policy.fields, doc, JObj(<<>>))
                r == encryptJsonAesGcm(x.protectedObj, NoKey, fresh, iv)
                partial == ObjSet(ObjSet(x.partial, KMode, JStr(StrField)),
                                  KBlob, JArr(<<>>))
            IN [encrypted |-> TextRecord(TextEncode(JsonStringify(partial)), r.encrypted),
                key |-> r.key]
       [] OTHER ->
            LET k == IF key # NoKey THEN key
                     ELSE encryptJsonAesGcm(JObj(<<>>), NoKey, fresh, ivSpare).key
                r == encryptJsonAesGcm(doc, k, fresh, iv)
            IN [encrypted |-> CipherRecord(r.encrypted), key |-> k]

\* FilesAdapter: the Map as a sequence of entries in insertion order
StorageKey(collection, id) == collection \o <<47>> \o id
StartsWith(s, prefix) ==
  Len(s) >= Len(prefix) /\ SubSeq(s, 1, Len(prefix)) = prefix
MapHas(map, key) == \E i \in DOMAIN map : map[i].key = key
MapGet(map, key) == map[CHOOSE i \in DOMAIN map : map[i].key = key].value
MapDelete(map, key) == SelectSeq(map, LAMBDA e : e.key # key)
MapSet(map, key, value) ==
  IF MapHas(map, key)
  THEN [i \in DOMAIN map |-> IF map[i].key = key THEN [key |-> key, value |-> value]
                             ELSE map[i]]
  ELSE Append(map, [key |-> key, value |-> value])
RECURSIVE FilesAdapterQueryFrom(_, _, _, _, _)
\* FilesAdapter.query: entries of the collection in insertion order; the
\* limit is tested after every entry, and a limit of 0 is no limit
FilesAdapterQueryFrom(store, collection, limit, i, out) ==
  IF i > Len(store) THEN out
  ELSE LET o == IF StartsWith(store[i].key, collection \o <<47>>)
                THEN Append(out, store[i].value) ELSE out
       IN IF limit # 0 /\ Len(o) >= limit THEN o
          ELSE FilesAdapterQueryFrom(store, collection, limit, i + 1, o)
FilesAdapterQuery(store, collection, limit) ==
  FilesAdapterQueryFrom(store, collection, limit, 1, <<>>)

\* DataCore.keyFor
KeyFor(collection, id) == collection \o <<58>> \o id

\* (mutant) get that does not detect the mode and always decrypts
DataCoreGetAlwaysDecrypt(store, docKeyMap, collection, id) ==
  LET skey == StorageKey(collection, id)
      none == [err |-> "", value |-> JNull, blob |-> <<>>]
  IN IF ~MapHas(store, skey) THEN none
     ELSE IF ~MapHas(docKeyMap, KeyFor(collection, id))
     THEN [none EXCEPT !.err = "Missing document key", !.value = JUndefined]
     ELSE LET rec == MapGet(store, skey)
              d == decryptJsonAesGcm(IF rec.kind = "cipher" THEN rec.blob ELSE rec.text,
                                     MapGet(docKeyMap, KeyFor(collection, id)))
          IN IF d.err = "none" THEN [none EXCEPT !.value = d.value]
             ELSE [none EXCEPT !.err = d.err, !.value = JUndefined]

\* DataCore.get: value is what the call returns (JNull for null), blob the
\* numbers of __blob of a field-mode record, err the message it throws
DataCoreGet(store, docKeyMap, collection, id) ==
  LET skey == StorageKey(collection, id)
      none == [err |-> "", value |-> JNull, blob |-> <<>>]
  IN IF ~MapHas(store, skey) THEN none
     ELSE LET rec == MapGet(store, skey)
              parsed == StoredParse(rec)
              tagged == parsed # JSyntaxError /\ Truthy(parsed)
          IN IF tagged /\ Prop(parsed, KMode) = JStr(StrNone)
             THEN [none EXCEPT !.value = Prop(parsed, KDoc)]
             ELSE IF tagged /\ Prop(parsed, KMode) = JStr(StrField)
             THEN [none EXCEPT !.value = parsed, !.blob = rec.blob]
             ELSE IF ~MapHas(docKeyMap, KeyFor(collection, id))
             THEN [none EXCEPT !.err = "Missing document key", !.value = JUndefined]
             ELSE LET d == decryptJsonAesGcm(
                             IF rec.kind = "cipher" THEN rec.blob ELSE rec.text,
                             MapGet(docKeyMap, KeyFor(collection, id)))
                  IN IF d.err = "none" THEN [none EXCEPT !.value = d.value]
                     ELSE [none EXCEPT !.err = d.err, !.value = JUndefined]

\* DataCore.query: the documents of the mode-'none' records storage returns
DataCoreQuery(store, collection, limit) ==
  LET blobs == FilesAdapterQuery(store, collection, limit)
      hit(b) == LET parsed == StoredParse(b)
                IN parsed # JSyntaxError /\ Truthy(parsed)
                     /\ Prop(parsed, KMode) = JStr(StrNone)
      hits == SelectSeq(blobs, hit)
  IN [i \in DOMAIN hits |-> Prop(StoredParse(hits[i]), KDoc)]

(* -------------------------- calls on DataCore ------------------------- *)
Modes == {"none", "field", "document"}
Collections == {<<105>>, <<110>>}
DocSamples ==
  {JObj(<<[k |-> FSsn, v |-> JStr(<<49>>)], [k |-> FName, v |-> JStr(StrHi)]>>),
   JObj(<<[k |-> FName, v |-> JStr(StrHi)]>>)}
FieldLists == {<<>>, <<FSsn>>, <<FZip>>}
PolicySamples ==
  {NoPolicy, Policy("none", <<>>), Policy("document", <<>>)}
    \cup {Policy("field", fs) : fs \in FieldLists}
UpdatePolicySamples ==
  {NoPolicy, Policy("none", <<>>), Policy("document", <<>>), Policy("field", <<FSsn>>)}

IdleDataLast ==
  [op |-> "none", collection |-> <<>>, id |-> <<>>, doc |-> JUndefined,
   encryption |-> "", fields |-> <<>>, limit |-> 0,
   keyBefore |-> NoKey, keyAfter |-> NoKey,
   result |-> [err |-> "", value |-> JUndefined, blob |-> <<>>], rows |-> <<>>,
   given |-> FALSE, modeBefore |-> "", persisted |-> TRUE, docKeysBefore |-> <<>>]
\* what the caller knows of the document it created last: where it is,
\* whether it is live, the document and mode written last, the modes
\* written so far ('delete' once it was deleted), and the key create retained
NoTarget ==
  [state |-> "none", collection |-> <<>>, id |-> <<>>, doc |-> JUndefined,
   encryption |-> "", modes |-> {}, createKey |-> NoKey]
\* a DataCore over an empty FilesAdapter: store is the adapter's Map, seq its
\* counter, docKeys the document keys DataCore retains, steps the clock
\* the two callers whose update calls on one DataCore overlap
DataCalls == {"u1", "u2"}
\* an update in flight: where it stands (idle, encrypted, stored, done), its
\* local key and the bytes it hands to storage
IdleDataCall == [pc |-> "idle", key |-> NoKey, encrypted |-> TextRecord(<<>>, <<>>)]
IdleDm ==
  [calls |-> [c \in DataCalls |-> IdleDataCall],
   defaultMode |-> "document", store |-> <<>>, seq |-> 0, docKeys |-> <<>>,
   steps |-> 0, target |-> NoTarget, last |-> IdleDataLast]
\* new DataCore(storage, defaults?): defaults?.encryption || 'document'
DataInit == \E m \in Modes : dm = [IdleDm EXCEPT !.defaultMode = m]

\* the key DataCore retains for a document, NoKey when it retains none
RetainedKey(docKeyMap, collection, id) ==
  IF MapHas(docKeyMap, KeyFor(collection, id))
  THEN MapGet(docKeyMap, KeyFor(collection, id)) ELSE NoKey

\* how a call of the storage collaborator ends: it resolves, it rejects
\* before it wrote, or it rejects after it wrote (FilesAdapter.persist
\* throwing after Map.set)
StorageOutcomes == {"resolved", "rejected", "rejectedAfterWrite"}
\* the writes whose storage call is let fail
FailedWriteDoc == JObj(<<[k |-> FName, v |-> JStr(StrHi)]>>)
FailedWritePolicies == {Policy("none", <<>>), Policy("document", <<>>)}
FailsOnlyFor(outcome, doc, policy) ==
  outcome # "resolved" => doc = FailedWriteDoc /\ policy \in FailedWritePolicies
\* (mutant) the key is retained before the storage call is awaited
DocKeysAfterWriteEager(docKeyMap, collection, id, key, outcome) ==
  IF key # NoKey THEN MapSet(docKeyMap, KeyFor(collection, id), key) ELSE docKeyMap
\* if (key) this.docKeys.set(...), which runs only when the awaited storage
\* call resolved
DocKeysAfterWrite(docKeyMap, collection, id, key, outcome) ==
  IF outcome = "resolved" /\ key # NoKey
  THEN MapSet(docKeyMap, KeyFor(collection, id), key) ELSE docKeyMap

DataCreate ==
  /\ dm.steps < MaxDataOps
  /\ \E doc \in DocSamples, policy \in PolicySamples, outcome \in StorageOutcomes :
       LET collection == <<105>>
           e == DataCoreEncode(dm.defaultMode, doc, policy,
                               GenKey(dm.steps + 1), GenIv(dm.steps + 1))
           id == Digits(dm.steps + 1) \o <<95>> \o Digits(dm.seq + 1)
           encryption == IF policy.given THEN policy.encryption ELSE dm.defaultMode
           wrote == outcome # "rejected"
       IN /\ outcome # "resolved" => dm.target.state # "none"
          /\ FailsOnlyFor(outcome, doc, policy)
          /\ dm' = [dm EXCEPT
                   !.store = IF wrote THEN MapSet(@, StorageKey(collection, id), e.encrypted)
                             ELSE @,
                   !.seq = IF wrote THEN @ + 1 ELSE @,
                   !.docKeys = DocKeysAfterWrite(@, collection, id, e.key, outcome),
                   !.steps = @ + 1,
                   !.target = IF outcome = "resolved"
                              THEN [state |-> "live", collection |-> collection, id |-> id,
                                    doc |-> doc, encryption |-> encryption,
                                    modes |-> {encryption}, createKey |-> e.key]
                              ELSE [@ EXCEPT !.modes = @ \cup {"failed"}],
                   !.last = [IdleDataLast EXCEPT
                               !.op = "create", !.collection = collection, !.id = id,
                               !.doc = doc, !.encryption = encryption,
                               !.fields = policy.fields, !.keyAfter = e.key,
                               !.persisted = outcome = "resolved",
                               !.docKeysBefore = dm.docKeys]]
  /\ UNCHANGED <<shareVars, cx, km, em>>

\* update of the document created last (also after it was deleted)
DataUpdate ==
  /\ dm.steps < MaxDataOps
  /\ dm.target.state # "none"
  /\ \E doc \in DocSamples, policy \in UpdatePolicySamples, outcome \in StorageOutcomes :
       LET collection == dm.target.collection
           id == dm.target.id
           key == RetainedKey(dm.docKeys, collection, id)
           e == DataCoreEncodeUpdate(dm.defaultMode, key, doc, policy,
                                     GenKey(dm.steps + 1), GenIv(dm.steps + 1),
                                     GenIv(MaxDataOps + dm.steps + 2))
           encryption == IF policy.given THEN policy.encryption ELSE dm.defaultMode
       IN /\ FailsOnlyFor(outcome, doc, policy)
          /\ dm' = [dm EXCEPT
                   !.store = IF outcome # "rejected"
                             THEN MapSet(@, StorageKey(collection, id), e.encrypted) ELSE @,
                   !.docKeys = DocKeysAfterWrite(@, collection, id, e.key, outcome),
                   !.steps = @ + 1,
                   !.target = IF outcome = "resolved"
                              THEN [@ EXCEPT !.state = "live", !.doc = doc,
                                             !.encryption = encryption,
                                             !.modes = @ \cup {encryption}]
                              ELSE [@ EXCEPT !.modes = @ \cup {"failed"}],
                   !.last = [IdleDataLast EXCEPT
                               !.op = "update", !.collection = collection, !.id = id,
                               !.doc = doc, !.encryption = encryption,
                               !.fields = policy.fields,
                               !.given = policy.given,
                               !.persisted = outcome = "resolved",
                               !.docKeysBefore = dm.docKeys,
                               !.modeBefore = IF dm.target.state = "live"
                                              THEN dm.target.encryption ELSE "absent",
                               !.keyBefore = key, !.keyAfter = e.key]]
  /\ UNCHANGED <<shareVars, cx, km, em>>

(* ----------------- overlapping updates on one DataCore ---------------- *)
\* Each action is the part of update that runs between two awaits; the
\* storage collaborator applies a write at some time between the call and
\* the moment the awaited promise resolves.
\* create, which returns the id and so ends before any update of that id
FirstCreate ==
  /\ dm.target.state = "none"
  /\ DataCreate

\* update up to the call of this.storage.update: the key was read from
\* docKeys, the document is encoded
UpdateStart(c) ==
  /\ dm.steps < MaxDataOps
  /\ dm.target.state = "live"
  /\ dm.calls[c].pc \in {"idle", "done"}
  /\ \E doc \in DocSamples, policy \in UpdatePolicySamples :
       LET key == RetainedKey(dm.docKeys, dm.target.collection, dm.target.id)
           e == DataCoreEncodeUpdate(dm.defaultMode, key, doc, policy,
                                     GenKey(dm.steps + 1), GenIv(dm.steps + 1),
                                     GenIv(MaxDataOps + dm.steps + 2))
       IN dm' = [dm EXCEPT
                   !.steps = @ + 1,
                   !.calls[c] = [pc |-> "encrypted", key |-> e.key,
                                 encrypted |-> e.encrypted]]
  /\ UNCHANGED <<shareVars, cx, km, em>>

\* the storage collaborator writes the bytes of the call
UpdateStored(c) ==
  /\ dm.calls[c].pc = "encrypted"
  /\ dm' = [dm EXCEPT
              !.store = MapSet(@, StorageKey(dm.target.collection, dm.target.id),
                               dm.calls[c].encrypted),
              !.calls[c].pc = "stored"]
  /\ UNCHANGED <<shareVars, cx, km, em>>

\* await this.storage.update(...) resolved: if (key) this.docKeys.set(...)
UpdateRetained(c) ==
  /\ dm.calls[c].pc = "stored"
  /\ dm' = [dm EXCEPT
              !.docKeys = DocKeysAfterWrite(@, dm.target.collection, dm.target.id,
                                            dm.calls[c].key, "resolved"),
              !.calls[c].pc = "done"]
  /\ UNCHANGED <<shareVars, cx, km, em>>

\* DataCore.delete of the document created last
DataDelete ==
  /\ dm.steps < MaxDataOps
  /\ dm.target.state # "none"
  /\ LET collection == dm.target.collection
         id == dm.target.id
     IN dm' = [dm EXCEPT
                 !.store = MapDelete(@, StorageKey(collection, id)),
                 !.docKeys = MapDelete(@, KeyFor(collection, id)),
                 !.steps = @ + 1,
                 !.target = [@ EXCEPT !.state = "deleted", !.modes = @ \cup {"delete"}],
                 !.last = [IdleDataLast EXCEPT
                             !.op = "delete", !.collection = collection, !.id = id,
                             !.keyBefore = RetainedKey(dm.docKeys, collection, id)]]
  /\ UNCHANGED <<shareVars, cx, km, em>>

\* a document that no create or update of the caller wrote
ForeignDoc == JObj(<<[k |-> FName, v |-> JStr(<<120>>)]>>)
\* the storage collaborator alters the bytes it holds for the document
\* created last: it replaces them by a plaintext record, or changes the
\* ciphertext of a document-mode blob
StorageTamper ==
  /\ dm.steps < MaxDataOps
  /\ dm.target.state = "live"
  /\ \E kind \in {"plaintext", "ciphertext"} :
       LET skey == StorageKey(dm.target.collection, dm.target.id)
           rec == MapGet(dm.store, skey)
           forged == TextRecord(TextEncode(JsonStringify(
                       JObj(<<[k |-> KMode, v |-> JStr(StrNone)],
                              [k |-> KDoc, v |-> ForeignDoc]>>))), <<>>)
       IN /\ kind = "ciphertext" => rec.kind = "cipher"
          /\ dm' = [dm EXCEPT
                      !.store = MapSet(@, skey,
                                       IF kind = "plaintext" THEN forged
                                       ELSE CipherRecord(Tampered(rec.blob, "ciphertext"))),
                      !.steps = @ + 1,
                      !.target = [@ EXCEPT !.modes = @ \cup {"tamper"}],
                      !.last = [IdleDataLast EXCEPT
                                  !.op = "tamper", !.collection = dm.target.collection,
                                  !.id = dm.target.id, !.encryption = kind]]
  /\ UNCHANGED <<shareVars, cx, km, em>>

\* get of the document created last, in its collection or in another one
DataGet ==
  /\ dm.steps < MaxDataOps
  /\ dm.target.state # "none"
  /\ \E collection \in Collections :
       dm' = [dm EXCEPT
                !.steps = @ + 1,
                !.last = [IdleDataLast EXCEPT
                            !.op = "get", !.collection = collection, !.id = dm.target.id,
                            !.result = DataCoreGet(dm.store, dm.docKeys,
                                                   collection, dm.target.id)]]
  /\ UNCHANGED <<shareVars, cx, km, em>>

DataQuery ==
  /\ dm.steps < MaxDataOps
  /\ \E q \in {[collection |-> <<105>>, limit |-> 0], [collection |-> <<105>>, limit |-> 1],
               [collection |-> <<110>>, limit |-> 0]} :
       dm' = [dm EXCEPT
                !.steps = @ + 1,
                !.last = [IdleDataLast EXCEPT
                            !.op = "query", !.collection = q.collection,
                            !.limit = q.limit,
                            !.rows = DataCoreQuery(dm.store, q.collection, q.limit)]]
  /\ UNCHANGED <<shareVars, cx, km, em>>

(* ================= key escrow: UX modes and key service =============== *)
\* property names and string literals of the escrow requests
KUserId == <<117, 115, 101, 114, 73, 100>>
KEncPrivKey == <<101, 110, 99, 80, 114, 105, 118, 75, 101, 121>>
KPublicKeyArmored == <<112, 117, 98, 108, 105, 99, 75, 101, 121, 65, 114, 109, 111, 114, 101, 100>>
KMethod == <<109, 101, 116, 104, 111, 100>>
KEncryptedPrivateKey == <<101, 110, 99, 114, 121, 112, 116, 101, 100, 80, 114, 105, 118, 97, 116, 101, 75, 101, 121>>
KCreatedAt == <<99, 114, 101, 97, 116, 101, 100, 65, 116>>
KAutoEscrow == <<97, 117, 116, 111, 69, 115, 99, 114, 111, 119>>
KTimestamp == <<116, 105, 109, 101, 115, 116, 97, 109, 112>>
StrEncrypted == <<101, 110, 99, 114, 121, 112, 116, 101, 100>>
\* the model's armor header of a private key ('BEGIN PGP PRIVATE KEY BLOCK')
PrivateKeyBlock == <<45, 45, 83>>
\* the one user of the escrow model
UserIdText == <<98, 111, 98>>

\* Array.from(encrypted): an array of byte values, kept whole
JBytes(b) == [t |-> "bytes", n |-> 0, s |-> b, kids |-> <<>>]
MethodText(method) ==
  [t |-> "str", n |-> 0, kids |-> <<>>,
   s |-> CASE method = "phrase" -> <<112, 104, 114, 97, 115, 101>>
           [] method = "file" -> <<102, 105, 108, 101>>
           [] OTHER -> <<119, 101, 98, 97, 117, 116, 104, 110>>]

\* the backupData object Keys.backup builds, as the JavaScript value a
\* request body carries
BackupDataValue(bd) ==
  IF ~bd.defined THEN JNull
  ELSE CASE bd.method = "phrase" ->
              JObj(<<[k |-> KMethod, v |-> MethodText(bd.method)],
                     [k |-> KEncryptedPrivateKey, v |-> JBytes(bd.encryptedPrivateKey)],
                     [k |-> KPublicKey, v |-> bd.publicKey],
                     [k |-> KCreatedAt, v |-> JNum(bd.createdAt)]>>)
         [] bd.method = "file" ->
              JObj(<<[k |-> KMethod, v |-> MethodText(bd.method)],
                     [k |-> KPrivateKey, v |-> bd.privateKey],
                     [k |-> KPublicKey, v |-> bd.publicKey],
                     [k |-> KMetadata, v |-> bd.metadata],
                     [k |-> KCreatedAt, v |-> JNum(bd.createdAt)]>>)
         [] OTHER ->
              JObj(<<[k |-> KMethod, v |-> MethodText(bd.method)],
                     [k |-> KPublicKey, v |-> bd.publicKey],
                     [k |-> KMetadata, v |-> bd.metadata],
                     [k |-> KCreatedAt, v |-> JNum(bd.createdAt)]>>)

\* the properties Keys.restore reads from the backupData it is given: every
\* property of a string or a number is undefined
BackupDataOf(v) ==
  IF v.t = "obj"
  THEN [NoBackupData EXCEPT
          !.defined = TRUE,
          !.encryptedPrivateKey =
             IF Prop(v, KEncryptedPrivateKey).t = "bytes"
             THEN Prop(v, KEncryptedPrivateKey).s ELSE <<>>,
          !.privateKey = Prop(v, KPrivateKey),
          !.publicKey = Prop(v, KPublicKey),
          !.metadata = Prop(v, KMetadata)]
  ELSE [NoBackupData EXCEPT !.defined = CanRead(v)]

\* String.prototype.includes
Includes(s, sub) ==
  \E i \in 0..(Len(s) - Len(sub)) : SubSeq(s, i + 1, i + Len(sub)) = sub
\* s.trim().length === 0
TrimsToEmpty(s) == \A i \in DOMAIN s : IsWs(s[i])
\* !v || typeof v !== 'string' || v.trim().length === 0
NotAString(v) == ~Truthy(v) \/ v.t # "str" \/ TrimsToEmpty(v.s)

\* Firestore collections 'users' and 'escrow', userId -> document
NoKeysDb == [users |-> <<>>, escrow |-> <<>>]
KeysResponse(status) == [status |-> status, encPrivKey |-> JUndefined]

\* handleKeys /register
handleRegister(body, db) ==
  LET userId == Prop(body, KUserId)
      publicKeyArmored == Prop(body, KPublicKeyArmored)
  IN IF NotAString(userId) THEN [res |-> KeysResponse(400), db |-> db]
     ELSE IF ~Truthy(publicKeyArmored) \/ publicKeyArmored.t # "str"
       THEN [res |-> KeysResponse(400), db |-> db]
       ELSE [res |-> KeysResponse(204),
             db |-> [db EXCEPT !.users = (userId.s :> publicKeyArmored) @@ @]]

\* handleKeys /escrow: only a non-empty string is stored
handleEscrow(body, db) ==
  LET userId == Prop(body, KUserId)
      encPrivKey == Prop(body, KEncPrivKey)
  IN IF NotAString(userId) THEN [res |-> KeysResponse(400), db |-> db]
     ELSE IF NotAString(encPrivKey) THEN [res |-> KeysResponse(400), db |-> db]
     ELSE IF Includes(encPrivKey.s, PrivateKeyBlock) /\ ~Includes(encPrivKey.s, StrEncrypted)
       THEN [res |-> KeysResponse(400), db |-> db]
       ELSE [res |-> KeysResponse(204),
             db |-> [db EXCEPT !.escrow = (userId.s :> encPrivKey) @@ @]]

\* handleKeys /recover
handleRecover(body, db) ==
  LET userId == Prop(body, KUserId)
  IN IF NotAString(userId) THEN [res |-> KeysResponse(400), db |-> db]
     ELSE IF userId.s \notin DOMAIN db.escrow THEN [res |-> KeysResponse(404), db |-> db]
     ELSE IF ~Truthy(db.escrow[userId.s]) THEN [res |-> KeysResponse(404), db |-> db]
     ELSE [res |-> [status |-> 200, encPrivKey |-> db.escrow[userId.s]], db |-> db]

handleKeys(path, body, db) ==
  CASE path = "/v1/keys/register" -> handleRegister(body, db)
    [] path = "/v1/keys/escrow" -> handleEscrow(body, db)
    [] path = "/v1/keys/recover" -> handleRecover(body, db)
    [] OTHER -> [res |-> KeysResponse(404), db |-> db]

\* CloudClient.post to the key service: undefined on 204, else the parsed
\* body whatever the status; rejects when the service cannot be reached
KeysPost(path, body, db, up) ==
  LET r == handleKeys(path, body, db)
      request == {[path |-> path, body |-> body]}
  IN IF ~up
     THEN [thrown |-> TRUE, defined |-> FALSE, encPrivKey |-> JUndefined,
           db |-> db, sent |-> request]
     ELSE [thrown |-> FALSE, defined |-> r.res.status # 204,
           encPrivKey |-> r.res.encPrivKey, db |-> r.db, sent |-> request]

RegisterBody(userId, publicKeyArmored) ==
  JObj(<<[k |-> KUserId, v |-> JStr(userId)],
         [k |-> KPublicKeyArmored, v |-> publicKeyArmored]>>)
EscrowBody(userId, encPrivKey) ==
  JObj(<<[k |-> KUserId, v |-> JStr(userId)], [k |-> KEncPrivKey, v |-> encPrivKey]>>)
RecoverBody(userId) == JObj(<<[k |-> KUserId, v |-> JStr(userId)]>>)

\* (mutant) the private key is escrowed as a file backup
EscrowBackupOptionsFile(options) ==
  [method |-> "file", passphrase |-> options.passphrase,
   metadata |-> options.escrowMetadata]
\* the KeyBackupOptions escrowPrivateKey and setPassphrase build
EscrowBackupOptions(options) ==
  [method |-> "phrase", passphrase |-> options.passphrase,
   metadata |-> options.escrowMetadata]

\* SharedResponsibilityMode.escrowEncryptedKey: 'completed' whatever the
\* service answered, 'failed' when the request threw
escrowEncryptedKey(userIdSet, up, encryptedKeyData, db) ==
  IF ~userIdSet \/ ~up THEN [status |-> "failed", db |-> db, sent |-> {}]
  ELSE LET r == KeysPost("/v1/keys/escrow", EscrowBody(UserIdText, encryptedKeyData),
                         db, up)
       IN [status |-> "completed", db |-> r.db, sent |-> r.sent]

\* SharedResponsibilityMode.escrowPrivateKey
escrowPrivateKey(thisCached, userIdSet, up, options, iv, ts, db) ==
  LET o == EscrowBackupOptions(options)
      b == KeysBackup(thisCached, o.method, o.passphrase, o.metadata, iv, ts)
  IN IF b.thrown \/ ~b.success THEN [status |-> "failed", db |-> db, sent |-> {}]
     ELSE escrowEncryptedKey(userIdSet, up, BackupDataValue(b.backupData), db)

\* SharedResponsibilityMode.recoverWithPassphrase
recoverWithPassphrase(thisCached, userIdSet, passphrase, db, up) ==
  LET out(success, keyPair, message, thisCachedAfter, sent) ==
        [thrown |-> FALSE, success |-> success, keyPair |-> keyPair,
         message |-> message, cached |-> thisCachedAfter, sent |-> sent]
      r == KeysPost("/v1/keys/recover", RecoverBody(UserIdText), db, up)
      k == KeysRestore(thisCached, "phrase", passphrase, BackupDataOf(r.encPrivKey))
  IN IF ~userIdSet
     THEN [thrown |-> TRUE, success |-> FALSE, keyPair |-> NoKeyPair,
           message |-> "User ID not set. Call initialize() first.",
           cached |-> thisCached, sent |-> {}]
     ELSE IF ~up THEN out(FALSE, NoKeyPair, "Recovery failed", thisCached, {})
     ELSE IF ~r.defined THEN out(FALSE, NoKeyPair, "Recovery failed", thisCached, r.sent)
     ELSE IF ~Truthy(r.encPrivKey)
       THEN out(FALSE, NoKeyPair, "No escrowed key found for this user", thisCached,
                r.sent)
       ELSE out(k.success, k.keyPair,
                IF k.success THEN "Keys recovered successfully from escrow"
                ELSE "Failed to decrypt escrowed key. Check your passphrase.",
                k.cached, r.sent)

\* hexadecimal digits of the 32 random bytes of a system passphrase
SystemPassphraseLen == 64
\* DeveloperManagedMode.generateSystemPassphrase at the n-th draw
generateSystemPassphrase(n) == Fill(SystemPassphraseLen, 48 + (n % 10))

\* DeveloperManagedMode.performAutoEscrow
performAutoEscrow(thisCached, userIdSet, up, systemPassphrase, iv, ts, db) ==
  LET metadata == JObj(<<[k |-> KAutoEscrow, v |-> JBool(TRUE)],
                         [k |-> KUserId, v |-> JStr(UserIdText)],
                         [k |-> KTimestamp, v |-> JNum(ts)]>>)
      b == KeysBackup(thisCached, "phrase", systemPassphrase, metadata, iv, ts)
  IN IF ~userIdSet \/ b.thrown \/ ~b.success THEN [db |-> db, sent |-> {}]
     ELSE LET r == KeysPost("/v1/keys/escrow",
                            EscrowBody(UserIdText, BackupDataValue(b.backupData)), db, up)
          IN [db |-> r.db, sent |-> r.sent]

(* ------------------------ calls on the UX modes ----------------------- *)
\* passphrases a user can choose: none, "zq" and a lone surrogate
EscrowPassphrases == {<<>>, <<122, 113>>, <<55296>>}
\* what another client of the key service can escrow for the user: nothing,
\* an encrypted text, an armored private key, and an armored private key
\* followed by the word 'encrypted'
EscrowTexts ==
  {<<>>, <<101, 110, 99>>, ArmoredText(generateKeyPair(1).privateKeyArmored),
   ArmoredText(generateKeyPair(1).privateKeyArmored) \o StrEncrypted}
\* the userId and encPrivKey members such a client can send
DirectUserIds == {JStr(UserIdText), JStr(<<32, 32>>), JUndefined, JNum(123)}
DirectKeys == {JStr(text) : text \in EscrowTexts} \cup {JStr(<<32>>), JNull}

IdleEscrowLast ==
  [op |-> "none", passphrase |-> <<>>, existed |-> FALSE, up |-> TRUE,
   thrown |-> FALSE, success |-> FALSE, message |-> "", keyPair |-> NoKeyPair,
   escrowStatus |-> "", prev |-> NoKeyPair,
   status |-> 0, body |-> JUndefined, dbBefore |-> NoKeysDb]
\* mode: which UX mode object the caller holds; cached: its Keys object;
\* db: the key service's collections; sent: the requests the mode has made;
\* secrets: the passphrases it was given or generated, and the private keys
\* it holds
IdleEm ==
  [mode |-> "none", autoEscrow |-> FALSE, userIdSet |-> FALSE, cached |-> NoKeyPair,
   pairs |-> 0, db |-> NoKeysDb, sent |-> {}, secrets |-> {}, steps |-> 0,
   last |-> IdleEscrowLast]
EscrowInit ==
  \E o \in {[mode |-> "shared", autoEscrow |-> FALSE],
            [mode |-> "developer", autoEscrow |-> FALSE],
            [mode |-> "developer", autoEscrow |-> TRUE]} :
    em = [IdleEm EXCEPT !.mode = o.mode, !.autoEscrow = o.autoEscrow]

HasEscrow(db) == UserIdText \in DOMAIN db.escrow
Secrets(passphrase, keyPair) ==
  (IF passphrase = <<>> THEN {} ELSE {passphrase})
  \cup (IF keyPair.defined THEN {keyPair.privateKeyArmored.s} ELSE {})
BeforeEscrow(op, up) ==
  [IdleEscrowLast EXCEPT !.op = op, !.up = up, !.existed = HasEscrow(em.db),
                         !.prev = em.cached]

\* SharedResponsibilityMode.initialize(userId, options)
SharedInitialize ==
  /\ em.mode = "shared" /\ em.steps < MaxEscrowOps
  /\ \E passphrase \in EscrowPassphrases, enableRecovery \in BOOLEAN, up \in BOOLEAN :
       LET e == KeysEnsure(em.cached, KeyPairOf(em.pairs + 1))
           reg == IF up
                  THEN KeysPost("/v1/keys/register",
                                RegisterBody(UserIdText, e.keyPair.publicKeyArmored),
                                em.db, up)
                  ELSE [db |-> em.db, sent |-> {}]
           esc == IF enableRecovery
                  THEN escrowPrivateKey(e.keyPair, TRUE, up,
                                        [passphrase |-> passphrase,
                                         escrowMetadata |-> JUndefined],
                                        GenIv(em.steps + 1), em.steps + 1, reg.db)
                  ELSE [status |-> "pending", db |-> reg.db, sent |-> {}]
       IN em' = [em EXCEPT
                   !.userIdSet = TRUE,
                   !.cached = e.keyPair,
                   !.pairs = @ + e.generated,
                   !.db = esc.db,
                   !.sent = @ \cup reg.sent \cup esc.sent,
                   !.secrets = @ \cup Secrets(passphrase, e.keyPair),
                   !.steps = @ + 1,
                   !.last = [BeforeEscrow("initialize", up) EXCEPT
                               !.passphrase = passphrase,
                               !.keyPair = e.keyPair,
                               !.success = TRUE,
                               !.escrowStatus = esc.status]]
  /\ UNCHANGED <<shareVars, cx, km, dm>>

\* SharedResponsibilityMode.setPassphrase(newPassphrase)
SharedSetPassphrase ==
  /\ em.mode = "shared" /\ em.steps < MaxEscrowOps
  /\ \E newPassphrase \in EscrowPassphrases, up \in BOOLEAN :
       LET o == EscrowBackupOptions([passphrase |-> newPassphrase,
                                     escrowMetadata |-> JUndefined])
           b == KeysBackup(em.cached, o.method, o.passphrase, o.metadata,
                           GenIv(em.steps + 1), em.steps + 1)
           esc == IF ~em.userIdSet \/ b.thrown \/ ~b.success
                  THEN [status |-> "failed", db |-> em.db, sent |-> {}]
                  ELSE escrowEncryptedKey(em.userIdSet, up,
                                          BackupDataValue(b.backupData), em.db)
       IN em' = [em EXCEPT
                   !.db = esc.db,
                   !.sent = @ \cup esc.sent,
                   !.secrets = @ \cup Secrets(newPassphrase, em.cached),
                   !.steps = @ + 1,
                   !.last = [BeforeEscrow("setPassphrase", up) EXCEPT
                               !.passphrase = newPassphrase,
                               !.thrown = ~em.userIdSet \/ b.thrown,
                               !.success = esc.status = "completed",
                               !.escrowStatus = esc.status]]
  /\ UNCHANGED <<shareVars, cx, km, dm>>

\* SharedResponsibilityMode.recoverWithPassphrase(passphrase)
SharedRecover ==
  /\ em.mode = "shared" /\ em.steps < MaxEscrowOps
  /\ \E passphrase \in EscrowPassphrases, up \in BOOLEAN :
       LET r == recoverWithPassphrase(em.cached, em.userIdSet, passphrase, em.db, up)
       IN em' = [em EXCEPT
                   !.cached = r.cached,
                   !.sent = @ \cup r.sent,
                   !.secrets = @ \cup Secrets(passphrase, r.cached),
                   !.steps = @ + 1,
                   !.last = [BeforeEscrow("recover", up) EXCEPT
                               !.passphrase = passphrase,
                               !.thrown = r.thrown,
                               !.success = r.success,
                               !.message = r.message,
                               !.keyPair = r.keyPair]]
  /\ UNCHANGED <<shareVars, cx, km, dm>>

\* DeveloperManagedMode.initialize(userId)
DeveloperInitialize ==
  /\ em.mode = "developer" /\ em.steps < MaxEscrowOps
  /\ \E up \in BOOLEAN :
       LET e == KeysEnsure(em.cached, KeyPairOf(em.pairs + 1))
           systemPassphrase == generateSystemPassphrase(em.steps + 1)
           reg == IF up
                  THEN KeysPost("/v1/keys/register",
                                RegisterBody(UserIdText, e.keyPair.publicKeyArmored),
                                em.db, up)
                  ELSE [db |-> em.db, sent |-> {}]
           esc == IF up /\ em.autoEscrow
                  THEN performAutoEscrow(e.keyPair, TRUE, up, systemPassphrase,
                                         GenIv(em.steps + 1), em.steps + 1, reg.db)
                  ELSE [db |-> reg.db, sent |-> {}]
       IN em' = [em EXCEPT
                   !.userIdSet = TRUE,
                   !.cached = e.keyPair,
                   !.pairs = @ + e.generated,
                   !.db = esc.db,
                   !.sent = @ \cup reg.sent \cup esc.sent,
                   !.secrets = @ \cup Secrets(IF up /\ em.autoEscrow
                                               THEN systemPassphrase ELSE <<>>,
                                               e.keyPair),
                   !.steps = @ + 1,
                   !.last = [BeforeEscrow("initialize", up) EXCEPT
                               !.keyPair = e.keyPair, !.success = TRUE]]
  /\ UNCHANGED <<shareVars, cx, km, dm>>

\* DeveloperManagedMode.rotateKeys()
DeveloperRotateKeys ==
  /\ em.mode = "developer" /\ em.steps < MaxEscrowOps
  /\ \E up \in BOOLEAN :
       LET fresh == KeysRotate(em.cached, KeyPairOf(em.pairs + 1))
           systemPassphrase == generateSystemPassphrase(em.steps + 1)
           reg == IF em.userIdSet
                  THEN KeysPost("/v1/keys/register",
                                RegisterBody(UserIdText, fresh.publicKeyArmored),
                                em.db, up)
                  ELSE [thrown |-> FALSE, db |-> em.db, sent |-> {}]
           escrows == em.userIdSet /\ ~reg.thrown /\ em.autoEscrow
           esc == IF escrows
                  THEN performAutoEscrow(fresh, em.userIdSet, up, systemPassphrase,
                                         GenIv(em.steps + 1), em.steps + 1, reg.db)
                  ELSE [db |-> reg.db, sent |-> {}]
       IN em' = [em EXCEPT
                   !.cached = fresh,
                   !.pairs = @ + 1,
                   !.db = esc.db,
                   !.sent = @ \cup reg.sent \cup esc.sent,
                   !.secrets = @ \cup Secrets(IF escrows THEN systemPassphrase ELSE <<>>,
                                               fresh),
                   !.steps = @ + 1,
                   !.last = [BeforeEscrow("rotateKeys", up) EXCEPT
                               !.keyPair = IF reg.thrown THEN NoKeyPair ELSE fresh,
                               !.success = ~reg.thrown]]
  /\ UNCHANGED <<shareVars, cx, km, dm>>

\* another client of the key service posts /v1/keys/escrow for the user
EscrowDirect ==
  /\ em.steps < MaxEscrowOps
  /\ \E userId \in DirectUserIds, encPrivKey \in DirectKeys :
       LET body == JObj(<<[k |-> KUserId, v |-> userId],
                          [k |-> KEncPrivKey, v |-> encPrivKey]>>)
           r == handleKeys("/v1/keys/escrow", body, em.db)
       IN em' = [em EXCEPT !.db = r.db,
                           !.steps = @ + 1,
                           !.last = [BeforeEscrow("escrowDirect", TRUE) EXCEPT
                                       !.success = r.res.status = 204,
                                       !.status = r.res.status,
                                       !.body = body,
                                       !.dbBefore = em.db]]
  /\ UNCHANGED <<shareVars, cx, km, dm>>

(* ------------------- projects sharing one key broker ------------------ *)
\* Clients of two projects send broker requests for their own documents.
\* handleBroker receives the project as authed.projectId and uses it for
\* recordUsage only, so the project is part of what the caller holds and of
\* nothing the broker stores.
Projects == {"p1", "p2"}
TenantCollections == {<<"a">>, <<"a", "_", "b">>}
TenantDocIds == {<<"c">>, <<"b", "_", "c">>}
\* what the owner of a document holds: the kref /doc-key returned, the
\* users it has granted and not revoked, and the time of its last rotate
TenantDoc(project, collection, docId) ==
  IF \E e \in issued : /\ e.project = project /\ e.collection = collection
                       /\ e.docId = docId
  THEN CHOOSE e \in issued : /\ e.project = project /\ e.collection = collection
                             /\ e.docId = docId
  ELSE [project |-> project, collection |-> collection, docId |-> docId,
        kref |-> NoKref, users |-> {}, rotatedAt |-> 0]
\* POST /v1/broker/doc-key and then POST path with the kref returned
TenantRequest(project, collection, docId, path, body) ==
  LET k == handleBroker("/v1/broker/doc-key",
                        [NoBody EXCEPT !.collection = collection, !.docId = docId],
                        docKeys, now + 1)
      r == handleBroker(path, [body EXCEPT !.kref = k.res.kref], k.db, now + 2)
  IN [kref |-> k.res.kref, db |-> r.db]
\* what the owner holds after a request
TenantHolds(project, collection, docId, r, users, rotatedAt) ==
  (issued \ {TenantDoc(project, collection, docId)})
    \cup {[project |-> project, collection |-> collection, docId |-> docId,
           kref |-> r.kref, users |-> users, rotatedAt |-> rotatedAt]}

TenantGrant ==
  /\ started < MaxOps
  /\ \E project \in Projects, collection \in TenantCollections, docId \in TenantDocIds,
        u \in Users :
       LET r == TenantRequest(project, collection, docId, "/v1/broker/grant",
                              [NoBody EXCEPT !.recipientUserId = u])
           d == TenantDoc(project, collection, docId)
       IN /\ docKeys' = r.db
          /\ issued' = TenantHolds(project, collection, docId, r,
                                   d.users \cup {u}, d.rotatedAt)
  /\ now' = now + 2
  /\ started' = started + 1
  /\ UNCHANGED <<stored, contentKey, proc, cached, nextKey, faults, localVars>>

TenantRevoke ==
  /\ started < MaxOps
  /\ \E project \in Projects, collection \in TenantCollections, docId \in TenantDocIds,
        u \in Users :
       LET r == TenantRequest(project, collection, docId, "/v1/broker/revoke",
                              [NoBody EXCEPT !.userId = u])
           d == TenantDoc(project, collection, docId)
       IN /\ docKeys' = r.db
          /\ issued' = TenantHolds(project, collection, docId, r,
                                   d.users \ {u}, d.rotatedAt)
  /\ now' = now + 2
  /\ started' = started + 1
  /\ UNCHANGED <<stored, contentKey, proc, cached, nextKey, faults, localVars>>

TenantRotate ==
  /\ started < MaxOps
  /\ \E project \in Projects, collection \in TenantCollections, docId \in TenantDocIds :
       LET r == TenantRequest(project, collection, docId, "/v1/broker/rotate", NoBody)
           d == TenantDoc(project, collection, docId)
       IN /\ docKeys' = r.db
          /\ issued' = TenantHolds(project, collection, docId, r, d.users, now + 2)
  /\ now' = now + 2
  /\ started' = started + 1
  /\ UNCHANGED <<stored, contentKey, proc, cached, nextKey, faults, localVars>>

ShareInit ==
  /\ docKeys = <<>>
  /\ now = 0
  /\ contentKey = GenKey(0)
  /\ stored = encryptJsonAesGcm(SharedDoc, NoKey, GenKey(0), GenIv(0)).encrypted
  /\ proc = [p \in Procs |-> IdleProc]
  /\ issued = {}
  /\ cached = [u \in Users |-> {}]
  /\ nextKey = 1
  /\ started = 0
  /\ faults = 0

ShareStep(p, limit) ==
  \/ \E recipients \in RecipientLists, supplied \in BOOLEAN :
       ShareGrant(p, limit, recipients, supplied)
  \/ \E u \in Users : ShareRevoke(p, limit, u)
  \/ \E u \in Users, recipients \in RecipientLists :
       ShareReShare(p, limit, u, recipients)
  \/ \E u \in Users : ShareGetWrappedKey(p, limit, u)
  \/ ShareListRecipients(p, limit)
  \/ ReShareReWrap(p)
  \/ PostHandled(p)
  \/ PostRejected(p)
  \/ PostThrows(p)

vars == <<docKeys, now, stored, contentKey, proc, issued, cached,
          nextKey, started, faults, cx, km, dm, em>>

\* clients run concurrently
Next ==
  \/ \E p \in Procs : ShareStep(p, MaxConcurrentOps)
  \/ \E u \in Users : RecipientUnwrap(u)
Init == ShareInit /\ cx = IdleCx /\ km = IdleKm /\ dm = IdleDm /\ em = IdleEm
Spec == Init /\ [][Next]_vars

\* the broker serving two projects
NextTenants ==
  \/ TenantGrant
  \/ TenantRevoke
  \/ TenantRotate
SpecTenants == Init /\ [][NextTenants]_vars

\* one client, one operation at a time
NextSeq ==
  \/ ShareStep("c1", MaxOps)
  \/ \E u \in Users : RecipientUnwrap(u)
SpecSeq == Init /\ [][NextSeq]_vars

\* one client whose own steps always go on; CloudClient.post passes no
\* timeout and no abort signal to request(), so nothing obliges a request
\* the service does not answer to end
SpecLive == Init /\ [][NextSeq]_vars /\ WF_vars(ReShareReWrap("c1"))

\* the cipher and key-wrap functions applied to sampled inputs
NextCrypto ==
  \/ CipherEncrypt
  \/ CipherTamper
  \/ CipherDecrypt
  \/ WrapKey
  \/ WrapMany
  \/ UnwrapKey
  \/ UnwrapKeyBinary
InitCrypto == ShareInit /\ CryptoInit /\ km = IdleKm /\ dm = IdleDm /\ em = IdleEm
SpecCrypto == InitCrypto /\ [][NextCrypto]_vars

\* the methods of one Keys object called one after the other
NextKeys ==
  \/ CallEnsure
  \/ CallRotate
  \/ CallBackup
  \/ CallRestore
  \/ CallExport
  \/ CallImport
\* the methods of one Keys object called by two callers without waiting
\* for each other
NextKeysConc ==
  \/ \E c \in KeyCalls : StartEnsure(c)
  \/ \E c \in KeyCalls : StartRotate(c)
  \/ \E c \in KeyCalls : KeyPairGenerated(c)
  \/ \E c \in KeyCalls : StartBackup(c)
  \/ \E c \in KeyCalls : BackupEncrypted(c)
  \/ \E c \in KeyCalls : ImportArmored(c)
InitKeys == ShareInit /\ cx = IdleCx /\ km = IdleKm /\ dm = IdleDm /\ em = IdleEm
SpecKeys == InitKeys /\ [][NextKeys]_vars
SpecKeysConc == InitKeys /\ [][NextKeysConc]_vars

\* the methods of one DataCore called one after the other
NextData ==
  \/ DataCreate
  \/ DataUpdate
  \/ DataDelete
  \/ StorageTamper
  \/ DataGet
  \/ DataQuery
\* one DataCore whose update is called by two callers without waiting for
\* each other
NextDataConc ==
  \/ FirstCreate
  \/ \E c \in DataCalls : UpdateStart(c)
  \/ \E c \in DataCalls : UpdateStored(c)
  \/ \E c \in DataCalls : UpdateRetained(c)
InitData == ShareInit /\ cx = IdleCx /\ km = IdleKm /\ DataInit /\ em = IdleEm
SpecData == InitData /\ [][NextData]_vars
SpecDataConc == InitData /\ [][NextDataConc]_vars

\* one UX mode object and the key service
NextEscrow ==
  \/ SharedInitialize
  \/ SharedSetPassphrase
  \/ SharedRecover
  \/ DeveloperInitialize
  \/ DeveloperRotateKeys
  \/ EscrowDirect
InitEscrow == ShareInit /\ cx = IdleCx /\ km = IdleKm /\ dm = IdleDm /\ EscrowInit
SpecEscrow == InitEscrow /\ [][NextEscrow]_vars

(* =========================== claims: sharing ========================== *)
DoneOk(p, op) == proc[p].op = op /\ proc[p].pc = "done" /\ proc[p].allOk
Wrapped == DocAt(docKeys, TheKref).wrapped
EntryUsers(entries) == {e.userId : e \in Range(entries)}

\* C1: once revoke(X) has completed, no content key X unwrapped before the
\* revoke opens the current stored payload.
C1_RevokedKeyNoLongerDecrypts ==
  \A p \in Procs :
    DoneOk(p, "revoke") => \A k \in proc[p].preCache : ~Decrypts(k)

\* C2: every wrap record returned by grant, with or without the documentKey
\* argument, unwraps to the document's current content key.
C2_AllWrapsUnwrapToContentKey ==
  \A w \in issued :
    unwrapKeyWithPGPBinary(w.wrappedKey, UserKeys(w.userId).privateKeyArmored)
      = contentKey

\* C3: a reShare that has a wrap record registered, or is about to register
\* one, fetched a wrap that unwraps under the current recipient's private
\* key; a reShare whose unwrap did not succeed has registered nothing and
\* left the recipient set as it was.
C3_ReShareOnlyAfterUnwrap ==
  \A p \in Procs :
    proc[p].op = "reShare" =>
      LET proven == unwrapKeyWithPGPBinary(proc[p].fetched, proc[p].privateKey) # NoKey
      IN /\ (proc[p].pc \in {"docKey", "grant", "done"} \/ proc[p].registered # {})
              => proven
         /\ ~proven => /\ proc[p].registered = {}
                       /\ proc[p].wrappedKeys = <<>>
                       /\ Wrapped = proc[p].pre

\* C3 witness: a reShare by a user the broker lists as a recipient has
\* fetched, failed to unwrap and thrown, with nothing registered.
C3_Witness ==
  \E p \in Procs :
    /\ proc[p].op = "reShare" /\ proc[p].pc = "failed"
    /\ proc[p].fetched = UndefinedWrap
    /\ proc[p].userId \in EntryUsers(Wrapped)
    /\ proc[p].registered = {}

\* C4: a revoke marks the KeyReference rotated only after its deletion of
\* the revoked recipient's wrap record has succeeded, so the record is gone
\* whenever that revoke's rotation is in place.
C4_RotateOnlyAfterDelete ==
  \A p \in Procs :
    (proc[p].op = "revoke" /\ proc[p].rotated) =>
      proc[p].userId \notin EntryUsers(Wrapped)

\* C5: two revokes on the same KeyReference never both complete a rotation
\* that is based on the same observed generation.
C5_RotateIsCompareAndSwap ==
  \A p \in Procs, q \in Procs :
    (/\ p # q
     /\ proc[p].op = "revoke" /\ proc[p].rotated
     /\ proc[q].op = "revoke" /\ proc[q].rotated)
    => proc[p].seen # proc[q].seen

\* C6: after a successful grant the recipient set is the one before the grant
\* plus the granted recipients, with one wrap record per recipient; a grant
\* of recipients who were all in the set already leaves the records as they
\* were.
C6_GrantIsSetUnion ==
  \A p \in Procs :
    DoneOk(p, "grant") =>
      /\ EntryUsers(Wrapped) = EntryUsers(proc[p].pre) \cup UserIds(proc[p].recipients)
      /\ \A i \in DOMAIN Wrapped, j \in DOMAIN Wrapped :
           Wrapped[i].userId = Wrapped[j].userId => i = j
      /\ UserIds(proc[p].recipients) \subseteq EntryUsers(proc[p].pre)
           => Wrapped = proc[p].pre

\* C6 witness: a successful grant of two recipients, one of them already in
\* the recipient set.
C6_Witness ==
  \E p \in Procs :
    /\ DoneOk(p, "grant")
    /\ Len(proc[p].recipients) = 2
    /\ Cardinality(EntryUsers(proc[p].pre) \cap UserIds(proc[p].recipients)) = 1

\* C7: after a successful revoke(X) the recipient set is the one before the
\* revoke without X, and every other recipient's wrap record is the record
\* it was.
C7_RevokeRemovesOnlyTarget ==
  \A p \in Procs :
    DoneOk(p, "revoke") =>
      /\ EntryUsers(Wrapped) = EntryUsers(proc[p].pre) \ {proc[p].userId}
      /\ \A e \in Range(proc[p].pre) :
           e.userId # proc[p].userId => e \in Range(Wrapped)
      /\ Len(Wrapped) = Cardinality(EntryUsers(proc[p].pre) \ {proc[p].userId})

\* C7 witness: a successful revoke of one of two recipients.
C7_Witness ==
  \E p \in Procs :
    /\ DoneOk(p, "revoke")
    /\ proc[p].userId \in EntryUsers(proc[p].pre)
    /\ EntryUsers(proc[p].pre) \ {proc[p].userId} # {}

\* C8: after revoke(X) has completed, every other recipient who could open
\* the stored payload before the revoke still has a wrap record at the
\* broker and still holds a wrap that unwraps to a key opening the payload.
C8_OthersUnaffected ==
  \A p \in Procs :
    DoneOk(p, "revoke") =>
      \A b \in (EntryUsers(proc[p].pre) \cap proc[p].preOpen) \ {proc[p].userId} :
        b \in EntryUsers(Wrapped) /\ CanOpen(b)

\* C8 witness: revoke(charlie) completed on a document bob and charlie could
\* both open.
C8_Witness ==
  \E p \in Procs :
    /\ DoneOk(p, "revoke")
    /\ proc[p].userId = "charlie"
    /\ {"bob", "charlie"} \subseteq (EntryUsers(proc[p].pre) \cap proc[p].preOpen)

(* ============================ claims: crypto ========================== *)
\* C9: for every JSON payload P and key K (the caller's, or the one encrypt
\* generated and returned), decrypt(encrypt(P, K).blob, K) succeeds and
\* returns a value equal to P.
C9_EncryptDecryptRoundTrip ==
  (/\ cx.phase = "decrypted"
   /\ cx.tamper = "none"
   /\ cx.payload \in JsonValues
   /\ cx.decKey = (IF cx.key # NoKey THEN cx.key ELSE cx.enc.key))
  => cx.dec.err = "none" /\ cx.dec.value = cx.payload

\* C9 witness: an object holding an array with a non-ASCII string that needs
\* escaping went through encrypt, under the caller's key, and decrypt.
C9_Witness ==
  /\ cx.phase = "decrypted"
  /\ cx.payload = JObj(<<[k |-> StrMsg, v |-> JStr(StrHi)],
                         [k |-> StrHi, v |-> JArr(<<JStr(StrOdd)>>)]>>)
  /\ cx.key = GenKey(7)
  /\ cx.decKey = cx.key
  /\ cx.dec.value = cx.payload

\* C10: for every content key K and key pair, unwrapping with the private
\* key what wrapping K under the public key produced yields K.
C10_WrapUnwrapRoundTrip ==
  (/\ cx.phase = "unwrapped"
   /\ ~cx.binary
   /\ cx.privPair = cx.pair)
  => cx.unwrapped = cx.aesKey

\* C11: decrypting, with the correct key, a blob in which a bit of the
\* ciphertext or of the tag was flipped fails at the authentication step;
\* and whatever blob and key decrypt is given, a value it returns is the one
\* that was encrypted.
C11_TamperDetected ==
  cx.phase = "decrypted" =>
    /\ (cx.decKey = cx.enc.key /\ cx.tamper \in {"ciphertext", "tag"})
         => cx.dec.err = "OperationError"
    /\ cx.dec.err = "none"
         => JsonStringify(cx.dec.value) = JsonStringify(cx.payload)

\* C11 witness: a blob with a flipped ciphertext bit was decrypted with the
\* key it was encrypted under.
C11_Witness ==
  /\ cx.phase = "decrypted"
  /\ cx.tamper = "ciphertext"
  /\ cx.decKey = cx.enc.key
  /\ cx.payload = JObj(<<[k |-> StrMsg, v |-> JNum(42)]>>)

\* C12: a blob whose first byte is not the format version is rejected as an
\* unsupported version whatever the key and the rest of the blob are; every
\* blob encrypt returned is the version byte 1, the 12-byte nonce of that
\* call, then ciphertext and tag.
C12_VersionChecked ==
  /\ (cx.phase = "decrypted" /\ (cx.blob = <<>> \/ cx.blob[1] # 1))
       => cx.dec.err = "Unsupported version"
  /\ \A i \in DOMAIN cx.log :
       LET out == cx.log[i].out
       IN /\ out.encrypted[1] = 1
          /\ Len(out.iv) = 12
          /\ SubSeq(out.encrypted, 2, 13) = out.iv
          /\ SubSeq(out.encrypted, 14, Len(out.encrypted))
               = AesGcmEncrypt(out.key, out.iv, TextEncode(JsonStringify(cx.log[i].obj)))

\* C12 witness: an otherwise intact blob with version byte 2 was handed to
\* decrypt together with the right key.
C12_Witness ==
  /\ cx.phase = "decrypted"
  /\ cx.tamper = "version"
  /\ cx.decKey = cx.enc.key
  /\ cx.dec.err = "Unsupported version"

RestoredFromPhraseRecord ==
  /\ km.last.op = "restore" /\ km.last.method = "phrase" /\ km.last.matched
  /\ km.record.data.defined /\ km.record.data.method = "phrase"

\* C14: restore with method 'phrase' and the passphrase backup was given,
\* applied to the record backup returned, succeeds and yields the key pair
\* that was backed up, public and private half
C14_EscrowRoundTrip ==
  (RestoredFromPhraseRecord /\ km.last.passphrase = km.record.passphrase)
    => /\ km.last.success
       /\ km.last.keyPair.publicKeyArmored = km.record.pair.publicKeyArmored
       /\ km.last.keyPair.privateKeyArmored = km.record.pair.privateKeyArmored
C14_Witness ==
  /\ RestoredFromPhraseRecord /\ km.last.passphrase = km.record.passphrase
  /\ km.last.success /\ km.last.keyPair = KeyPairOf(1)
  /\ km.last.prev # km.last.keyPair

\* C15 (as stated): restore with a passphrase different from the one backup
\* was given fails and returns no key pair
C15_WrongSecretFails ==
  (RestoredFromPhraseRecord /\ km.last.passphrase # km.record.passphrase)
    => (~km.last.success /\ km.last.keyPair = NoKeyPair)
\* C15 (amended): restore with a passphrase whose UTF-8 encoding differs
\* from that of the passphrase backup was given fails and returns no key
\* pair
C15_WrongEncodedSecretFails ==
  (RestoredFromPhraseRecord
     /\ TextEncode(km.last.passphrase) # TextEncode(km.record.passphrase))
    => (~km.last.success /\ km.last.keyPair = NoKeyPair)
C15_Witness ==
  /\ RestoredFromPhraseRecord
  /\ km.last.passphrase # <<>>
  /\ TextEncode(km.last.passphrase) # TextEncode(km.record.passphrase)
  /\ ~km.last.success


\* the halves of the pair a JSON export text carries
ExportedHalves(text) ==
  LET parsed == JsonParse(text)
  IN [privateKeyArmored |-> Prop(parsed, KPrivateKey),
      publicKeyArmored |-> Prop(parsed, KPublicKey)]

C17_EnsureIdempotent ==
  /\ (km.last.op = "ensure" /\ ~km.last.prev.defined)
       => /\ km.last.generated = 1
          /\ km.last.keyPair = KeyPairOf(km.pairs)
          /\ km.cached = km.last.keyPair
  /\ (km.last.op = "ensure" /\ km.last.ensured.defined)
       => /\ km.last.generated = 0
          /\ km.last.keyPair = km.last.ensured
          /\ km.cached = km.last.ensured
C17_Witness ==
  /\ km.last.op = "ensure" /\ km.last.ensured.defined
  /\ km.last.keyPair = KeyPairOf(1) /\ km.pairs = 1

\* C18: rotate in any state leaves a newly generated pair cached, which is
\* not the pair cached before and which ensure then returns; the step
\* changes no document key, wrap record, content key or backup record
C18_RotateOnlyReplacesPair ==
  /\ [](km.last.op = "rotate"
          => /\ km.cached = KeyPairOf(km.pairs)
             /\ km.cached # km.last.prev
             /\ KeysEnsure(km.cached, KeyPairOf(km.pairs + 1)) =
                  [keyPair |-> km.cached, generated |-> 0]
             /\ km.record.data = km.last.record)
  /\ [][CallRotate => /\ km'.record = km.record
                      /\ km'.exported = km.exported
                      /\ UNCHANGED shareVars]_vars
C18_Witness ==
  /\ km.last.op = "rotate" /\ km.last.prev = KeyPairOf(1)
  /\ km.record.data.defined /\ km.record.pair = KeyPairOf(1)
  /\ km.cached = KeyPairOf(2)


\* C19: import of what export returned, in the format it was exported in,
\* does not throw and leaves the exported pair cached, private and public
\* half; neither call touches the broker's state
C19_ExportImportRoundTrip ==
  (km.last.op = "import" /\ km.last.matched /\ km.last.format = km.exported.format)
    => /\ ~km.last.thrown
       /\ km.cached.privateKeyArmored = km.exported.pair.privateKeyArmored
       /\ km.cached.publicKeyArmored = km.exported.pair.publicKeyArmored
       /\ ShareInit


(* ========================== claims: DataCore ========================== *)
\* the record storage holds for the document created last
CreatedRecord == MapGet(dm.store, StorageKey(dm.last.collection, dm.last.id))
Declared(name) == \E i \in DOMAIN dm.last.fields : dm.last.fields[i] = name
\* the stored record names no declared field, is tagged 'field', carries
\* every undeclared field of the document in clear, and its blob decrypts
\* under the retained key to the declared fields of the document
FieldIsolated ==
  LET parsed == StoredParse(CreatedRecord)
      sub == decryptJsonAesGcm(CreatedRecord.blob,
                               MapGet(dm.docKeys, KeyFor(dm.last.collection, dm.last.id)))
  IN /\ parsed # JSyntaxError
     /\ Prop(parsed, KMode) = JStr(StrField)
     /\ \A i \in DOMAIN dm.last.doc.kids :
          LET p == dm.last.doc.kids[i]
          IN IF Declared(p.k)
             THEN ~ObjHas(parsed, p.k) /\ sub.err = "none" /\ Prop(sub.value, p.k) = p.v
             ELSE Prop(parsed, p.k) = p.v
\* some row query returns for the collection carries every undeclared
\* field of the document
UndeclaredQueryable ==
  LET rows == DataCoreQuery(dm.store, dm.last.collection, 0)
  IN \E r \in DOMAIN rows :
       \A i \in DOMAIN dm.last.doc.kids :
         LET p == dm.last.doc.kids[i]
         IN Declared(p.k) \/ Prop(rows[r], p.k) = p.v

\* C20: after create under mode 'field' the stored record holds no declared
\* field in clear (the declared values are in the encrypted sub-object
\* only), holds every undeclared field in clear under the tag 'field', and
\* a document with undeclared fields is returned by query with them
C20_FieldIsolation ==
  (dm.last.op = "create" /\ dm.last.encryption = "field" /\ dm.last.persisted)
    => /\ FieldIsolated
       /\ (\E i \in DOMAIN dm.last.doc.kids : ~Declared(dm.last.doc.kids[i].k))
            => UndeclaredQueryable


\* the record storage holds for the caller's document, and the key retained
TargetRecord == MapGet(dm.store, StorageKey(dm.target.collection, dm.target.id))
TargetKey == RetainedKey(dm.docKeys, dm.target.collection, dm.target.id)
\* the key is retained for no other document
KeyOfTargetOnly(key) ==
  \A i \in DOMAIN dm.docKeys :
    dm.docKeys[i].value = key
      => dm.docKeys[i].key = KeyFor(dm.target.collection, dm.target.id)

Returns(value) == [err |-> "", value |-> value, blob |-> <<>>]
\* every write of the caller's document was in document or none mode
PlainOrDocumentOnly == dm.target.modes \subseteq {"document", "none", "delete"}

C23_WrapManyPartial ==
  cx.phase = "wrappedMany"
    => \A i \in DOMAIN cx.recipients :
         cx.recipients[i].publicKeyArmored.half = "public"
           => \E j \in DOMAIN cx.many.wrappedKeys :
                /\ cx.many.wrappedKeys[j].userId = cx.recipients[i].userId
                /\ cx.many.wrappedKeys[j].wrappedKey =
                     wrapKeyWithPGP(cx.aesKey, cx.recipients[i].publicKeyArmored)

\* C24: a listRecipients call the broker answered gives exactly the
\* recipients for which the broker stores a wrap record of the document
C24_ListRecipientsAccurate ==
  \A p \in Procs :
    (proc[p].op = "listRecipients" /\ proc[p].pc = "done" /\ faults = 0)
      => /\ proc[p].listed.defined
         /\ proc[p].listed.users = {e.userId : e \in Range(proc[p].pre)}

\* C25: getWrappedKey, answered by the broker for a recipient it has
\* registered, returns a wrap record grant produced for them, which their
\* private key unwraps
C25_GetWrappedKeyReturnsGrantWrap ==
  \A p \in Procs :
    (/\ proc[p].op = "getWrappedKey" /\ proc[p].pc = "done" /\ faults = 0
     /\ proc[p].userId \in {e.userId : e \in Range(proc[p].pre)})
      => /\ \E w \in issued : w.userId = proc[p].userId
                               /\ w.wrappedKey = proc[p].fetched
         /\ unwrapKeyWithPGP(proc[p].fetched,
                             UserKeys(proc[p].userId).privateKeyArmored) # NoKey

\* C26: a grant, revoke or reShare one of whose broker requests was answered
\* with an error status, or was not answered, has failed: it takes no
\* further step and does not return
C26_BrokerFailureFailsOperation ==
  \A p \in Procs :
    (proc[p].op \in {"grant", "revoke", "reShare"} /\ ~proc[p].allOk
     /\ faults > 0)
      => proc[p].pc = "failed"

(* ====================== claims: backup methods ======================== *)
\* C29: a backup by a method Keys cannot restore from (webauthn, or a
\* method it does not know) does not report success
C29_UnsupportedMethodFails ==
  (km.last.op = "backup" /\ km.last.prev.defined
   /\ km.last.method \notin {"phrase", "file"})
    => ~km.last.success

(* ========================= claims: key escrow ========================= *)
\* C27: a recovery that fails although an escrow record exists for the user
\* returns what a recovery returns when no record exists
C27_RecoveryOutcomeUniform ==
  (/\ em.last.op = "recover" /\ em.last.up /\ ~em.last.thrown
   /\ em.last.existed /\ ~em.last.success)
    => em.last.message =
         recoverWithPassphrase(em.last.prev, TRUE, em.last.passphrase,
                               NoKeysDb, TRUE).message

\* does the text occur in a string or a property name of the value
RECURSIVE Mentions(_, _)
Mentions(v, text) ==
  CASE v.t = "str" -> Includes(v.s, text)
    [] v.t = "obj" -> \E i \in DOMAIN v.kids :
                        Includes(v.kids[i].k, text) \/ Mentions(v.kids[i].v, text)
    [] v.t = "arr" -> \E i \in DOMAIN v.kids : Mentions(v.kids[i], text)
    [] OTHER -> FALSE

C31_EscrowHoldsNoClearKey ==
  \A u \in DOMAIN em.db.escrow : \A n \in KeyPairIds :
    ~Includes(em.db.escrow[u].s, ArmoredText(generateKeyPair(n).privateKeyArmored))

(* ===================== claims: DataCore protection ==================== *)
\* C32: after an update without a policy of a document that was stored in
\* document or field mode, the stored record is not a plaintext record
C32_UpdateKeepsProtection ==
  (/\ dm.last.op = "update" /\ dm.last.persisted /\ ~dm.last.given
   /\ dm.last.modeBefore \in {"document", "field"})
    => ~(/\ TargetRecord.kind = "text"
         /\ Prop(StoredParse(TargetRecord), KMode) = JStr(StrNone))

\* C33: get on a live document that was only ever written in document mode
\* returns the document written last or fails, whatever the storage
\* collaborator did to the stored bytes
C33_GetReturnsOnlyWrittenContent ==
  (/\ dm.last.op = "get" /\ dm.last.collection = dm.target.collection
   /\ dm.target.state = "live"
   /\ dm.target.modes \ {"tamper"} = {"document"}
   /\ dm.last.result.err = "")
    => dm.last.result.value = dm.target.doc

\* C39: a create or update whose storage call failed leaves the retained
\* content keys exactly as they were before the call
C39_FailedWriteKeepsKeys ==
  (dm.last.op \in {"create", "update"} /\ ~dm.last.persisted)
    => dm.docKeys = dm.last.docKeysBefore
\* a failed write that had a key to retain which differs from the retained one
C39_Witness ==
  /\ dm.last.op \in {"create", "update"} /\ ~dm.last.persisted
  /\ dm.last.keyAfter # NoKey
  /\ dm.last.keyAfter # RetainedKey(dm.last.docKeysBefore, dm.last.collection, dm.last.id)
  /\ dm.docKeys # <<>>

\* C38: a restore that reports success false and an import that throws
\* leave this.cached as it was before the call
C38_FailedRecoveryKeepsIdentity ==
  ((km.last.op = "restore" /\ ~km.last.success)
     \/ (km.last.op = "import" /\ km.last.thrown))
    => km.cached = km.last.prev
\* a restore of the latest phrase backup with another passphrase fails on a
\* Keys object that has a pair
C38_Witness ==
  /\ km.last.op = "restore" /\ ~km.last.success
  /\ km.last.method = "phrase" /\ km.last.matched
  /\ km.record.data.defined /\ km.record.data.method = "phrase"
  /\ km.last.passphrase \notin {<<>>, km.record.passphrase}
  /\ km.last.prev.defined /\ km.cached = km.last.prev


(* ================= claims: overlapping calls on Keys ================== *)
\* the private key a phrase backup record holds, read with passphrase 'p'
RecordPrivateKey(data) ==
  Prop(decryptJsonAesGcm(data.encryptedPrivateKey,
                         deriveKeyFromPassphrase(<<112>>)).value, KPrivateKey)

\* C35: two ensure calls that both started on a Keys object without a pair
\* return the same pair, and that pair is this.cached when both have returned
C35_OverlappingEnsureAgree ==
  \A a \in KeyCalls : \A b \in KeyCalls \ {a} :
    (/\ km.conc.calls[a].op = "ensure" /\ km.conc.calls[a].pc = "done"
     /\ km.conc.calls[b].op = "ensure" /\ km.conc.calls[b].pc = "done"
     /\ km.conc.calls[a].sawNone /\ km.conc.calls[b].sawNone)
      => /\ km.conc.calls[a].keyPair = km.conc.calls[b].keyPair
         /\ km.conc.calls[a].keyPair = km.cached

\* C40: the publicKey of a backup record and the private key encrypted in
\* it are the two halves of one pair this.cached has held, whatever runs
\* while backup is suspended
C40_BackupRecordOnePair ==
  \A c \in KeyCalls :
    (/\ km.conc.calls[c].op = "backup" /\ km.conc.calls[c].pc = "done"
     /\ km.conc.calls[c].data.defined)
      => \E kp \in km.conc.identities :
           /\ kp.privateKeyArmored = RecordPrivateKey(km.conc.calls[c].data)
           /\ kp.publicKeyArmored = km.conc.calls[c].data.publicKey


\* C37: when initialize or setPassphrase reports escrowStatus 'completed',
\* the key service holds a record for the user, and recoverWithPassphrase
\* with the same passphrase succeeds with the pair the mode has
C37_CompletedEscrowRecovers ==
  (/\ em.mode = "shared" /\ em.last.op \in {"initialize", "setPassphrase"}
   /\ em.last.escrowStatus = "completed")
    => /\ HasEscrow(em.db)
       /\ LET r == recoverWithPassphrase(em.cached, em.userIdSet, em.last.passphrase,
                                         em.db, TRUE)
          IN r.success /\ r.keyPair = em.cached


(* ==================== claims: projects and krefs ====================== *)
\* C36: the krefs of two different (project, collection, docId) are
\* different, and the wraps and the rotation time the broker holds under a
\* document's kref are those its own grant, revoke and rotate requests made
C36_KrefPerDocumentAndProject ==
  /\ \A e \in issued : \A f \in issued \ {e} : e.kref # f.kref
  /\ \A e \in issued :
       /\ RecipientSet(docKeys, e.kref) = e.users
       /\ DocAt(docKeys, e.kref).rotatedAt = e.rotatedAt


=============================================================================
